---- MODULE Spec2Model ----
(***************************************************************************)
(* "My List" service: cursor codec, list query planner with its LRU+TTL    *)
(* read cache, and the add/remove mutations with cache invalidation.       *)
(*                                                                         *)
(* Strings are sequences of one-character strings, so that JSON texts,     *)
(* base64 tokens and ISO timestamps are built and parsed character by      *)
(* character.                                                              *)
(***************************************************************************)
EXTENDS Integers, Sequences, FiniteSets, TLC

(***************************************************************************)
(* Characters                                                              *)
(***************************************************************************)

\* Printable ASCII, code 32 (space) to 126 (~), in code order (code 96 is
\* written GRAVE).
Ascii ==
  << " ", "!", "\"", "#", "$", "%", "&", "'", "(", ")", "*", "+", ",", "-", ".", "/",
     "0", "1", "2", "3", "4", "5", "6", "7", "8", "9", ":", ";", "<", "=", ">", "?",
     "@", "A", "B", "C", "D", "E", "F", "G", "H", "I", "J", "K", "L", "M", "N", "O",
     "P", "Q", "R", "S", "T", "U", "V", "W", "X", "Y", "Z", "[", "\\", "]", "^", "_",
     "GRAVE", "a", "b", "c", "d", "e", "f", "g", "h", "i", "j", "k", "l", "m", "n", "o",
     "p", "q", "r", "s", "t", "u", "v", "w", "x", "y", "z", "{", "|", "}", "~" >>

AsciiSet == { Ascii[i] : i \in 1..Len(Ascii) }

\* Characters that are not printable ASCII: a control character (code below
\* 32), and any character of code 127 or more, U+FFFD included.
CtrlChar == "CTRL"

NonAscii == "NONASCII"

\* Code unit of a character.
Ord == [ c \in AsciiSet |-> 31 + CHOOSE i \in 1..Len(Ascii) : Ascii[i] = c ]

\* Character of a byte, as Buffer.toString('utf8') yields it.
Chr(b) == IF b < 32 THEN CtrlChar ELSE IF b <= 126 THEN Ascii[b - 31] ELSE NonAscii

Digits == << "0", "1", "2", "3", "4", "5", "6", "7", "8", "9" >>

DigitSet == { Digits[i] : i \in 1..10 }

DigitVal == [ c \in DigitSet |-> (CHOOSE i \in 1..10 : Digits[i] = c) - 1 ]

\* Lexicographic order on strings by code unit: the store's binary string
\* comparison ($lt, sort) and JavaScript's <.
RECURSIVE StrLess(_, _)
StrLess(a, b) ==
  IF Len(b) = 0 THEN FALSE
  ELSE IF Len(a) = 0 THEN TRUE
  ELSE IF Ord[Head(a)] # Ord[Head(b)] THEN Ord[Head(a)] < Ord[Head(b)]
  ELSE StrLess(Tail(a), Tail(b))

\* Decimal digits of a natural number (Number.prototype.toString inside
\* JSON.stringify).
RECURSIVE NatToStr(_)
NatToStr(n) ==
  IF n < 10 THEN << Digits[n + 1] >>
  ELSE Append(NatToStr(n \div 10), Digits[(n % 10) + 1])

(***************************************************************************)
(* JSON values.  Every value is a record [t, s, n, f]: t the type, s the   *)
(* characters of a string, n a number, f the members of an object in       *)
(* insertion order, each [k |-> name, v |-> value].                        *)
(***************************************************************************)

JStr(s) == [ t |-> "string", s |-> s, n |-> 0, f |-> << >> ]

JNum(n) == [ t |-> "number", s |-> << >>, n |-> n, f |-> << >> ]

JObj(f) == [ t |-> "object", s |-> << >>, n |-> 0, f |-> f ]

JNull == [ t |-> "null", s |-> << >>, n |-> 0, f |-> << >> ]

\* The value of a property that is not there.
Undefined == [ t |-> "undefined", s |-> << >>, n |-> 0, f |-> << >> ]

\* obj[name] in JavaScript: the member's value (the last one of that name
\* wins in JSON.parse), undefined when there is none or obj is no object.
GetProp(obj, name) ==
  IF obj.t # "object" THEN Undefined
  ELSE LET hits == { i \in 1..Len(obj.f) : obj.f[i].k = name }
       IN  IF hits = {} THEN Undefined
           ELSE obj.f[CHOOSE i \in hits : \A j \in hits : j <= i].v

\* A test that only undefined and null fail.
TruthyIfPresent(v) == v.t \notin { "undefined", "null" }

\* JavaScript truthiness: '', 0, null and undefined are falsy.
Truthy(v) ==
  CASE v.t = "string" -> Len(v.s) > 0
    [] v.t = "number" -> v.n # 0
    [] v.t = "boolean" -> v.n = 1
    [] v.t = "object" -> TRUE
    [] OTHER -> FALSE

(***************************************************************************)
(* JSON.stringify and JSON.parse                                           *)
(***************************************************************************)

\* A string literal: quotes around the characters, with the quote and the
\* backslash escaped.
RECURSIVE EscapeChars(_)
EscapeChars(s) ==
  IF Len(s) = 0 THEN << >>
  ELSE (IF Head(s) \in { "\"", "\\" } THEN << "\\", Head(s) >> ELSE << Head(s) >>)
         \o EscapeChars(Tail(s))

\* A string literal with nothing escaped.
QuoteStringRaw(s) == << "\"" >> \o s \o << "\"" >>

QuoteString(s) == << "\"" >> \o EscapeChars(s) \o << "\"" >>

\* JSON.stringify: members in insertion order, members whose value is
\* undefined left out, no white space.
RECURSIVE JsonStringify(_)
RECURSIVE StringifyMembers(_, _)
JsonStringify(v) ==
  CASE v.t = "string" -> QuoteString(v.s)
    [] v.t = "number" -> NatToStr(v.n)
    [] v.t = "boolean" -> IF v.n = 1 THEN << "t", "r", "u", "e" >>
                                      ELSE << "f", "a", "l", "s", "e" >>
    [] v.t = "object" -> << "{" >> \o StringifyMembers(v.f, TRUE) \o << "}" >>
    [] OTHER -> << "n", "u", "l", "l" >>

StringifyMembers(f, first) ==
  IF Len(f) = 0 THEN << >>
  ELSE IF Head(f).v.t = "undefined" THEN StringifyMembers(Tail(f), first)
  ELSE (IF first THEN << >> ELSE << "," >>)
         \o QuoteString(Head(f).k) \o << ":" >> \o JsonStringify(Head(f).v)
         \o StringifyMembers(Tail(f), FALSE)

JBool(b) == [ t |-> "boolean", s |-> << >>, n |-> IF b THEN 1 ELSE 0, f |-> << >> ]

\* Result of a parsing step: the value and the index after it.
ParseOk(v, i) == [ ok |-> TRUE, v |-> v, i |-> i ]

ParseFail == [ ok |-> FALSE, v |-> Undefined, i |-> 0 ]

RECURSIVE SkipWs(_, _)
SkipWs(txt, i) == IF i <= Len(txt) /\ txt[i] = " " THEN SkipWs(txt, i + 1) ELSE i

\* The word w stands at index i of txt.
HasWord(txt, i, w) == i + Len(w) - 1 <= Len(txt) /\ SubSeq(txt, i, i + Len(w) - 1) = w

\* The characters of a string literal whose opening quote is before index j.
RECURSIVE ParseStringBody(_, _, _)
ParseStringBody(txt, j, acc) ==
  IF j > Len(txt) THEN ParseFail
  ELSE IF txt[j] = "\"" THEN ParseOk(JStr(acc), j + 1)
  ELSE IF txt[j] = CtrlChar THEN ParseFail
  ELSE IF txt[j] = "\\" THEN
         IF j + 1 > Len(txt) THEN ParseFail
         ELSE IF txt[j + 1] \in { "\"", "\\", "/" }
              THEN ParseStringBody(txt, j + 2, Append(acc, txt[j + 1]))
         ELSE IF txt[j + 1] \in { "b", "f", "n", "r", "t" }
              THEN ParseStringBody(txt, j + 2, Append(acc, CtrlChar))
         ELSE ParseFail
  ELSE ParseStringBody(txt, j + 1, Append(acc, txt[j]))

\* A number: 0, or a digit 1-9 followed by digits.
RECURSIVE ParseDigits(_, _, _)
ParseDigits(txt, j, acc) ==
  IF j <= Len(txt) /\ txt[j] \in DigitSet
  THEN ParseDigits(txt, j + 1, 10 * acc + DigitVal[txt[j]])
  ELSE ParseOk(JNum(acc), j)

RECURSIVE ParseValue(_, _)
RECURSIVE ParseMembers(_, _, _)
ParseValue(txt, i0) ==
  LET i == SkipWs(txt, i0) IN
  IF i > Len(txt) THEN ParseFail
  ELSE IF txt[i] = "\"" THEN ParseStringBody(txt, i + 1, << >>)
  ELSE IF txt[i] = "{" THEN
         LET j == SkipWs(txt, i + 1) IN
         IF j <= Len(txt) /\ txt[j] = "}" THEN ParseOk(JObj(<< >>), j + 1)
         ELSE ParseMembers(txt, j, << >>)
  ELSE IF txt[i] = "0" THEN ParseOk(JNum(0), i + 1)
  ELSE IF txt[i] \in DigitSet THEN ParseDigits(txt, i, 0)
  ELSE IF HasWord(txt, i, << "n", "u", "l", "l" >>) THEN ParseOk(JNull, i + 4)
  ELSE IF HasWord(txt, i, << "t", "r", "u", "e" >>) THEN ParseOk(JBool(TRUE), i + 4)
  ELSE IF HasWord(txt, i, << "f", "a", "l", "s", "e" >>) THEN ParseOk(JBool(FALSE), i + 5)
  ELSE ParseFail

\* The members of an object from index i0 (a member name is expected there)
\* to the closing brace.
ParseMembers(txt, i0, acc) ==
  LET i == SkipWs(txt, i0) IN
  IF i > Len(txt) \/ txt[i] # "\"" THEN ParseFail
  ELSE LET key == ParseStringBody(txt, i + 1, << >>) IN
       IF ~key.ok THEN ParseFail
       ELSE LET c == SkipWs(txt, key.i) IN
            IF c > Len(txt) \/ txt[c] # ":" THEN ParseFail
            ELSE LET val == ParseValue(txt, c + 1) IN
                 IF ~val.ok THEN ParseFail
                 ELSE LET e == SkipWs(txt, val.i)
                          mem == Append(acc, [ k |-> key.v.s, v |-> val.v ])
                      IN  IF e > Len(txt) THEN ParseFail
                          ELSE IF txt[e] = "}" THEN ParseOk(JObj(mem), e + 1)
                          ELSE IF txt[e] = "," THEN ParseMembers(txt, e + 1, mem)
                          ELSE ParseFail

\* JSON.parse: one value and nothing but white space after it; ok = FALSE is
\* the SyntaxError.
JsonParse(txt) ==
  LET r == ParseValue(txt, 1) IN
  IF r.ok /\ SkipWs(txt, r.i) = Len(txt) + 1 THEN r ELSE ParseFail

(***************************************************************************)
(* Buffer: utf8 and base64                                                 *)
(***************************************************************************)

B64Alphabet ==
  << "A", "B", "C", "D", "E", "F", "G", "H", "I", "J", "K", "L", "M", "N", "O", "P",
     "Q", "R", "S", "T", "U", "V", "W", "X", "Y", "Z", "a", "b", "c", "d", "e", "f",
     "g", "h", "i", "j", "k", "l", "m", "n", "o", "p", "q", "r", "s", "t", "u", "v",
     "w", "x", "y", "z", "0", "1", "2", "3", "4", "5", "6", "7", "8", "9", "+", "/" >>

B64Chars == { B64Alphabet[i] : i \in 1..64 } \cup { "-", "_" }

\* Value of a base64 character; the URL-safe - and _ are accepted as + and /.
B64Index ==
  [ c \in B64Chars |->
      IF c = "-" THEN 62
      ELSE IF c = "_" THEN 63
      ELSE (CHOOSE i \in 1..64 : B64Alphabet[i] = c) - 1 ]

\* Buffer.from(s, 'utf8') for printable ASCII.
Utf8Bytes(s) == [ i \in 1..Len(s) |-> Ord[s[i]] ]

\* buffer.toString('utf8').
Utf8ToString(bytes) == [ i \in 1..Len(bytes) |-> Chr(bytes[i]) ]

\* buffer.toString('base64'): three bytes to four characters, = padding.
\* Character j belongs to group g = (j-1) \div 4 of bytes 3g+1 .. 3g+3.
B64Encode(b) ==
  LET n == Len(b)
      byte(i) == IF i <= n THEN b[i] ELSE 0
      char(j) ==
        LET g == (j - 1) \div 4
            pos == (j - 1) % 4
            b1 == byte(3 * g + 1)
            b2 == byte(3 * g + 2)
            b3 == byte(3 * g + 3)
        IN  CASE pos = 0 -> B64Alphabet[(b1 \div 4) + 1]
              [] pos = 1 -> B64Alphabet[((b1 % 4) * 16 + (b2 \div 16)) + 1]
              [] pos = 2 -> IF 3 * g + 2 > n THEN "="
                            ELSE B64Alphabet[((b2 % 16) * 4 + (b3 \div 64)) + 1]
              [] OTHER -> IF 3 * g + 3 > n THEN "=" ELSE B64Alphabet[(b3 % 64) + 1]
  IN  [ j \in 1..(4 * ((n + 2) \div 3)) |-> char(j) ]

IsB64Char(c) == c \in B64Chars

\* The base64 values of a token as Buffer.from(s, 'base64') reads them:
\* characters outside the alphabet are skipped and = ends the input.
B64Sextets(s) ==
  LET pads == { i \in 1..Len(s) : s[i] = "=" }
      stop == IF pads = {} THEN Len(s) + 1 ELSE CHOOSE i \in pads : \A j \in pads : i <= j
      legal == SelectSeq(SubSeq(s, 1, stop - 1), IsB64Char)
  IN  [ i \in 1..Len(legal) |-> B64Index[legal[i]] ]

\* Four values to three bytes; a last group of two gives one byte, of three
\* two bytes, and a single left-over value gives none.
SextetsToBytes(x) ==
  LET n == Len(x)
      rest == n % 4
      nbytes == 3 * (n \div 4) + (IF rest = 2 THEN 1 ELSE IF rest = 3 THEN 2 ELSE 0)
      byte(k) ==
        LET g == (k - 1) \div 3
            pos == (k - 1) % 3
        IN  CASE pos = 0 -> x[4 * g + 1] * 4 + (x[4 * g + 2] \div 16)
              [] pos = 1 -> (x[4 * g + 2] % 16) * 16 + (x[4 * g + 3] \div 4)
              [] OTHER -> (x[4 * g + 3] % 4) * 64 + x[4 * g + 4]
  IN  [ k \in 1..nbytes |-> byte(k) ]

\* Buffer.from(s, 'base64').
B64Decode(s) == SextetsToBytes(B64Sextets(s))

(***************************************************************************)
(* Cursor codec                                                            *)
(***************************************************************************)

K_addedAt == << "a", "d", "d", "e", "d", "A", "t" >>

K_contentId == << "c", "o", "n", "t", "e", "n", "t", "I", "d" >>

\* The object literal { addedAt, contentId } of two strings.
CursorPayload(addedAt, contentId) ==
  JObj(<< [ k |-> K_addedAt, v |-> JStr(addedAt) ],
          [ k |-> K_contentId, v |-> JStr(contentId) ] >>)

\* A thrown HttpError / a returned value.
Throw(statusCode, errorCode) ==
  [ ok |-> FALSE, v |-> Undefined, statusCode |-> statusCode, errorCode |-> errorCode ]

Return(v) == [ ok |-> TRUE, v |-> v, statusCode |-> 0, errorCode |-> "" ]

encodeCursor(cursor) == B64Encode(Utf8Bytes(JsonStringify(cursor)))

\* Reading a property of null throws a TypeError, which the catch turns into
\* the same HttpError as a SyntaxError and as the payload check.
decodeCursor(rawCursor) ==
  LET decoded == Utf8ToString(B64Decode(rawCursor))
      parsed == JsonParse(decoded)
  IN  IF ~parsed.ok THEN Throw(400, "invalid_cursor")
      ELSE IF parsed.v.t = "null" THEN Throw(400, "invalid_cursor")
      ELSE IF ~Truthy(GetProp(parsed.v, K_addedAt)) \/ ~Truthy(GetProp(parsed.v, K_contentId))
           THEN Throw(400, "invalid_cursor")
      ELSE Return(parsed.v)

(***************************************************************************)
(* Date                                                                    *)
(***************************************************************************)

\* "1970-01-01T00:00:0", the part of an ISO timestamp shared by every
\* instant of the first ten seconds of the epoch.
IsoPrefix ==
  << "1", "9", "7", "0", "-", "0", "1", "-", "0", "1", "T", "0", "0", ":", "0", "0", ":", "0" >>

\* Date.prototype.toISOString of the instant ms (0 <= ms < 10000):
\* 1970-01-01T00:00:0S.mmmZ.
toISOString(ms) ==
  IsoPrefix \o << Digits[(ms \div 1000) + 1], ".", Digits[((ms \div 100) % 10) + 1],
                  Digits[((ms \div 10) % 10) + 1], Digits[(ms % 10) + 1], "Z" >>

InvalidDate == [ valid |-> FALSE, ms |-> 0 ]

\* Date.parse restricted to the format toISOString writes; any other string
\* is an Invalid Date.
ParseIsoString(s) ==
  IF /\ Len(s) = 24
     /\ SubSeq(s, 1, 18) = IsoPrefix
     /\ s[19] \in DigitSet /\ s[20] = "." /\ s[21] \in DigitSet
     /\ s[22] \in DigitSet /\ s[23] \in DigitSet /\ s[24] = "Z"
  THEN [ valid |-> TRUE,
         ms |-> 1000 * DigitVal[s[19]] + 100 * DigitVal[s[21]] + 10 * DigitVal[s[22]]
                  + DigitVal[s[23]] ]
  ELSE InvalidDate

\* new Date(v): a string is parsed, a number (or boolean) is the instant in
\* milliseconds, an object has no date value.
NewDate(v) ==
  CASE v.t = "string" -> ParseIsoString(v.s)
    [] v.t \in { "number", "boolean" } -> [ valid |-> TRUE, ms |-> v.n ]
    [] OTHER -> InvalidDate

(***************************************************************************)
(* State                                                                   *)
(***************************************************************************)

VARIABLES
  store,          \* InMemoryCache.store: key -> CacheEntry
  accessCounter,  \* InMemoryCache.accessCounter
  options,        \* InMemoryCache.options: [ttlSeconds, maxItems]
  now,            \* Date.now(), in milliseconds
  ticks,          \* number of clock steps taken
  calls,          \* number of cache calls made by the cache client
  lastCall,       \* the cache call the cache client made at this instant, with
                  \* its result and the entries it evicted
  live,           \* key -> [value, at, setAt, used]: the last set of the key
                  \* (its value, its time, its call number) and the call
                  \* number of its last set or successful get, while the key
                  \* has not been deleted, cleared or evicted since
  setRun,         \* [ok, keys]: the keys set since construction, ok while
                  \* nothing but sets of distinct keys has happened
  twin,           \* once the client has called clear (on): a cache
                  \* constructed with the same options at the last clear and
                  \* given the same calls since, with the result and the
                  \* evictions of its last call; had: the cache had been
                  \* written to before that clear
  my_list,        \* the my_list collection: a set of MyListItem documents
  reqs,           \* the HTTP requests being served, by connection
  started,        \* number of requests received so far
  hist,           \* the successive contents of my_list
  committed,      \* userId -> index in hist of the last write of a mutation of
                  \* that user's list that has returned to its caller
  conflicts,      \* the (userId, contentId) pairs an add has answered
                  \* already_in_list for, not removed since
  removed,        \* the (userId, contentId) pairs a remove has answered 204
                  \* for, with no add of the pair received since
  trav,           \* a client paging through one user's list: the pages it
                  \* has got (acc), the list at its start (expected) and the
                  \* items of it whose add had returned by then and that no
                  \* remove has deleted since (stable)
  pageTimes,     \* cache key -> [read, stored]: when the find behind the
                  \* cached page ran and when the page was put in the cache
  db,             \* config/database.ts: connectionPromise (0 = null), the
                  \* calls of mongoose.connect made so far with the state of
                  \* the promise each returned (attempts), the disconnects
                  \* awaiting close, each with the number of attempts made
                  \* when it was called (closing), MONGODB_URI set or not (uri);
                  \* and of the run: the attempts a completed disconnect has
                  \* closed or abandoned (released), the last call (last)
  proc,           \* server.ts: where start() stands, the exit code of the
                  \* process, the attempt start() awaits
  cx              \* the cursor codec's caller: input and outputs

cacheVars == << store, accessCounter, options >>

clockVars == << now, ticks >>

clientVars == << calls, lastCall, live, setRun, twin >>

serviceVars == << my_list, reqs, started, hist, committed, conflicts, removed, trav,
                 pageTimes >>

bootVars == << db, proc >>

vars == << store, accessCounter, options, now, ticks, calls, lastCall, live, setRun, twin,
           my_list, reqs, started, hist, committed, conflicts, removed,
           trav, pageTimes, db, proc, cx >>

(***************************************************************************)
(* Cache engine: InMemoryCache                                             *)
(***************************************************************************)

\* Number.POSITIVE_INFINITY / a finite number of milliseconds.
Infinity == [ inf |-> TRUE, ms |-> 0 ]

Finite(ms) == [ inf |-> FALSE, ms |-> ms ]

\* a > b for a finite a.
GreaterThan(a, b) == ~b.inf /\ a > b.ms

\* What a cache read returns: the value, or undefined.
Hit(value) == [ hit |-> TRUE, value |-> value ]

Miss == [ hit |-> FALSE, value |-> "undefined" ]

EmptyStore == [ k \in {} |-> 0 ]

\* store.delete(key).
StoreDelete(st, key) == [ k \in (DOMAIN st) \ { key } |-> st[k] ]

\* store.set(key, entry).
StoreSet(st, key, entry) ==
  [ k \in (DOMAIN st) \cup { key } |-> IF k = key THEN entry ELSE st[k] ]

\* get(key) that returns the value and leaves the entry's counter as it was.
CacheGetNoTouch(st, counter, opts, clock, key) ==
  IF key \notin DOMAIN st
  THEN [ store |-> st, accessCounter |-> counter, result |-> Miss ]
  ELSE IF opts.ttlSeconds > 0 /\ GreaterThan(clock, st[key].expiresAt)
  THEN [ store |-> StoreDelete(st, key), accessCounter |-> counter, result |-> Miss ]
  ELSE [ store |-> st, accessCounter |-> counter, result |-> Hit(st[key].value) ]

\* get(key) that reports an expired entry absent and leaves it stored.
CacheGetKeepExpired(st, counter, opts, clock, key) ==
  IF key \notin DOMAIN st
  THEN [ store |-> st, accessCounter |-> counter, result |-> Miss ]
  ELSE IF opts.ttlSeconds > 0 /\ GreaterThan(clock, st[key].expiresAt)
  THEN [ store |-> st, accessCounter |-> counter, result |-> Miss ]
  ELSE [ store |-> [ st EXCEPT ![key].lastAccessCounter = counter + 1 ],
         accessCounter |-> counter + 1,
         result |-> Hit(st[key].value) ]

\* An expiry test that takes an entry without a finite expiry time as
\* expired.
IsExpiredUnlessFinite(opts, clock, entry) ==
  entry.expiresAt.inf \/ clock > entry.expiresAt.ms

\* The expiry test with >= for >.
IsExpiredAtExpiry(opts, clock, entry) ==
  opts.ttlSeconds > 0 /\ ~entry.expiresAt.inf /\ clock >= entry.expiresAt.ms

\* The expiry test of get.
IsExpired(opts, clock, entry) == opts.ttlSeconds > 0 /\ GreaterThan(clock, entry.expiresAt)

\* get(key): the new store, the new counter and the returned value.
CacheGet(st, counter, opts, clock, key) ==
  IF key \notin DOMAIN st
  THEN [ store |-> st, accessCounter |-> counter, result |-> Miss ]
  ELSE IF IsExpired(opts, clock, st[key])
  THEN [ store |-> StoreDelete(st, key), accessCounter |-> counter, result |-> Miss ]
  ELSE [ store |-> [ st EXCEPT ![key].lastAccessCounter = counter + 1 ],
         accessCounter |-> counter + 1,
         result |-> Hit(st[key].value) ]

\* An eviction scan that ends with the entry of highest counter.
LruKeyNewest(st) ==
  CHOOSE k \in DOMAIN st :
    \A j \in DOMAIN st : st[k].lastAccessCounter >= st[j].lastAccessCounter

\* The key the eviction scan ends with: the entry of lowest counter (the
\* first such entry in iteration order; counters are distinct).
LruKey(st) ==
  CHOOSE k \in DOMAIN st :
    \A j \in DOMAIN st : st[k].lastAccessCounter <= st[j].lastAccessCounter

\* enforceMaxItems() comparing with >= instead of <=: one entry too many is
\* let in.
EnforceMaxItemsLate(st, opts) ==
  IF Cardinality(DOMAIN st) <= opts.maxItems + 1 THEN st ELSE StoreDelete(st, LruKey(st))

\* enforceMaxItems().
EnforceMaxItems(st, opts) ==
  IF Cardinality(DOMAIN st) <= opts.maxItems THEN st ELSE StoreDelete(st, LruKey(st))

\* An expiry time of twice the ttl.
ExpiresAtTwice(opts, clock) ==
  IF opts.ttlSeconds > 0 THEN Finite(clock + 2 * opts.ttlSeconds * 1000) ELSE Infinity

\* The expiry time set() computes.
ExpiresAt(opts, clock) ==
  IF opts.ttlSeconds > 0 THEN Finite(clock + opts.ttlSeconds * 1000) ELSE Infinity

\* A set that stamps the entry and leaves the access counter of the cache
\* as it was.
CacheSetStaleCounter(st, counter, opts, clock, key, value) ==
  [ store |->
      EnforceMaxItems(
        StoreSet(st, key, [ value |-> value,
                            expiresAt |-> ExpiresAt(opts, clock),
                            lastAccessCounter |-> counter + 1 ]),
        opts),
    accessCounter |-> counter ]

\* set(key, value): the new store and the new counter.
CacheSet(st, counter, opts, clock, key, value) ==
  [ store |->
      EnforceMaxItems(
        StoreSet(st, key, [ value |-> value,
                            expiresAt |-> ExpiresAt(opts, clock),
                            lastAccessCounter |-> counter + 1 ]),
        opts),
    accessCounter |-> counter + 1 ]

\* delete(key).
CacheDelete(st, key) == StoreDelete(st, key)

\* The store and the counter of a cache as constructed.
Constructed == [ store |-> EmptyStore, accessCounter |-> 0 ]

\* clear() that empties the store and keeps the counter.
CacheClearKeepCounter == [ store |-> EmptyStore, accessCounter |-> accessCounter ]

\* clear(): the new store and the new counter.
CacheClear == [ store |-> EmptyStore, accessCounter |-> 0 ]

(***************************************************************************)
(* Catalogue and collection                                                *)
(***************************************************************************)

U1 == << "u", "1" >>

U2 == << "u", "2" >>

Users == { U1, U2 }

ContentIds == { << "a" >>, << "b" >>, << "c" >> }

\* The catalogue collections: a and b are movies, b and c are shows.
MovieModel ==
  { [ id |-> << "a" >>, title |-> "Movie A", genres |-> << "Action" >> ],
    [ id |-> << "b" >>, title |-> "Movie B", genres |-> << "Drama" >> ] }

TVShowModel ==
  { [ id |-> << "b" >>, title |-> "Show B", genres |-> << "SciFi" >> ],
    [ id |-> << "c" >>, title |-> "Show C", genres |-> << >> ] }

\* A lookup that searches both catalogues whatever the kind.
resolveContentMetadataAnyKind(contentId, contentType) ==
  LET hits == { m \in MovieModel \cup TVShowModel : m.id = contentId }
  IN  IF hits = {}
      THEN Throw(404, IF contentType = "Movie" THEN "movie_not_found" ELSE "show_not_found")
      ELSE Return(CHOOSE m \in hits : TRUE)

\* resolveContentMetadata: findOne({ id }) in the catalogue of the kind; a
\* miss throws the 404 of that kind.
resolveContentMetadata(contentId, contentType) ==
  LET coll == IF contentType = "Movie" THEN MovieModel ELSE TVShowModel
      hits == { m \in coll : m.id = contentId }
  IN  IF hits = {}
      THEN Throw(404, IF contentType = "Movie" THEN "movie_not_found" ELSE "show_not_found")
      ELSE Return(CHOOSE m \in hits : TRUE)

\* The order of the list: addedAt descending, then contentId descending.
Before(i, j) ==
  \/ i.addedAt > j.addedAt
  \/ i.addedAt = j.addedAt /\ StrLess(j.contentId, i.contentId)

\* sort({ addedAt: -1, contentId: -1 }).
RECURSIVE SortDesc(_)
SortDesc(S) ==
  IF S = {} THEN << >>
  ELSE LET first == CHOOSE i \in S : \A j \in S \ { i } : Before(i, j) \/ ~Before(j, i)
       IN  << first >> \o SortDesc(S \ { first })

\* limit(n).
Limit(rows, n) == IF Len(rows) > n THEN SubSeq(rows, 1, n) ELSE rows

\* What the query layer makes of the contentId bound of the cursor: a
\* string as it is, a number or boolean as its text, nothing of an object.
CastString(v) ==
  CASE v.t = "string" -> [ ok |-> TRUE, s |-> v.s ]
    [] v.t = "number" -> [ ok |-> TRUE, s |-> NatToStr(v.n) ]
    [] v.t = "boolean" -> [ ok |-> TRUE, s |-> JsonStringify(v) ]
    [] OTHER -> [ ok |-> FALSE, s |-> << >> ]

\* The filter of listMyList and its find: userId, and with a cursor the rows
\* strictly after it.  ok = FALSE: the query is refused (an Invalid Date or
\* an object as bound cannot be cast), and find rejects.
Find(coll, userId, cursor, n) ==
  IF cursor.t = "undefined"
  THEN [ ok |-> TRUE, rows |-> Limit(SortDesc({ i \in coll : i.userId = userId }), n) ]
  ELSE LET date == NewDate(GetProp(cursor, K_addedAt))
           cid == CastString(GetProp(cursor, K_contentId))
       IN  IF ~date.valid \/ ~cid.ok THEN [ ok |-> FALSE, rows |-> << >> ]
           ELSE [ ok |-> TRUE,
                  rows |-> Limit(SortDesc({ i \in coll :
                                /\ i.userId = userId
                                /\ \/ i.addedAt < date.ms
                                   \/ i.addedAt = date.ms /\ StrLess(i.contentId, cid.s) }), n) ]

\* A page that announces a next one as soon as limit rows were fetched.
BuildPageEager(rows, limit) ==
  LET hasMore == Len(rows) >= limit
      trimmed == IF Len(rows) > limit THEN SubSeq(rows, 1, limit) ELSE rows
      last == trimmed[Len(trimmed)]
  IN  [ items |-> trimmed,
        nextCursor |-> IF hasMore /\ Len(trimmed) > 0
                       THEN JStr(encodeCursor(CursorPayload(toISOString(last.addedAt),
                                                            last.contentId)))
                       ELSE Undefined ]

\* The page listMyList builds from the limit + 1 rows fetched.
BuildPage(rows, limit) ==
  LET hasMore == Len(rows) > limit
      trimmed == IF hasMore THEN SubSeq(rows, 1, limit) ELSE rows
      last == trimmed[Len(trimmed)]
  IN  [ items |-> trimmed,
        nextCursor |-> IF hasMore
                       THEN JStr(encodeCursor(CursorPayload(toISOString(last.addedAt),
                                                            last.contentId)))
                       ELSE Undefined ]

\* A key made of the pagination parameters alone.
cacheKeyNoUser(userId, limit, cursor) ==
  JsonStringify(JObj(<< [ k |-> << "l", "i", "m", "i", "t" >>, v |-> JNum(limit) ],
                        [ k |-> << "c", "u", "r", "s", "o", "r" >>, v |-> cursor ] >>))

\* cacheKey(userId, options).
cacheKey(userId, limit, cursor) ==
  JsonStringify(JObj(<< [ k |-> << "u", "s", "e", "r", "I", "d" >>, v |-> JStr(userId) ],
                        [ k |-> << "l", "i", "m", "i", "t" >>, v |-> JNum(limit) ],
                        [ k |-> << "c", "u", "r", "s", "o", "r" >>, v |-> cursor ] >>))

\* The unique index on (userId, contentId).
IsDuplicate(coll, userId, contentId) ==
  \E i \in coll : i.userId = userId /\ i.contentId = contentId

\* A create with no unique index to refuse it.
CreateUnchecked(coll, doc) == [ coll |-> coll \cup { doc }, code |-> 0 ]

\* MyListItemModel.create(doc) as the store executes it: the document is
\* inserted unless the unique index refuses it with error 11000.
Create(coll, doc) ==
  IF IsDuplicate(coll, doc.userId, doc.contentId)
  THEN [ coll |-> coll, code |-> 11000 ]
  ELSE [ coll |-> coll \cup { doc }, code |-> 0 ]

\* A deleteOne whose filter has the contentId only.
DeleteOneByContent(coll, userId, contentId) ==
  LET hits == { i \in coll : i.contentId = contentId }
  IN  IF hits = {} THEN [ coll |-> coll, deletedCount |-> 0 ]
      ELSE [ coll |-> coll \ hits, deletedCount |-> 1 ]

\* A deleteOne that reports a deleted document whether it found one or not.
DeleteOneCountsAny(coll, userId, contentId) ==
  LET hits == { i \in coll : i.userId = userId /\ i.contentId = contentId }
  IN  IF hits = {} THEN [ coll |-> coll, deletedCount |-> 1 ]
      ELSE [ coll |-> coll \ { CHOOSE i \in hits : TRUE }, deletedCount |-> 1 ]

\* MyListItemModel.deleteOne({ userId, contentId }).
DeleteOne(coll, userId, contentId) ==
  LET hits == { i \in coll : i.userId = userId /\ i.contentId = contentId }
  IN  IF hits = {} THEN [ coll |-> coll, deletedCount |-> 0 ]
      ELSE [ coll |-> coll \ { CHOOSE i \in hits : TRUE }, deletedCount |-> 1 ]

\* isDuplicateKeyError(error).
isDuplicateKeyError(code) == code = 11000

\* The page of a list query run directly against a collection, or the
\* rejection of the query.
DirectList(coll, userId, limit, cursor) ==
  LET f == Find(coll, userId, cursor, limit + 1)
  IN  IF f.ok THEN Return(BuildPage(f.rows, limit)) ELSE Throw(500, "internal_error")

\* listQuerySchema on the limit parameter: Number(value ?? 20), which must be
\* an integer from 1 to 100.  The parameters of the runs are texts of
\* digits; Number() of the empty text is 0, and any other text stands for a
\* value the refinement refuses.
ParseLimit(limit) ==
  LET n == IF ~limit.given THEN 20
           ELSE IF Len(limit.s) = 0 THEN 0
           ELSE IF \A i \in 1..Len(limit.s) : limit.s[i] \in DigitSet
                THEN ParseDigits(limit.s, 1, 0).v.n
           ELSE -1
  IN  IF n > 0 /\ n <= 100 THEN [ ok |-> TRUE, limit |-> n ] ELSE [ ok |-> FALSE, limit |-> n ]

(***************************************************************************)
(* Bounds                                                                  *)
(***************************************************************************)

\* Clock steps per behaviour.
MaxTicks == 3

\* Cache calls per behaviour of the cache client.
MaxCalls == 4

\* Clock steps in milliseconds: together they land on, just before and just
\* after a whole number of seconds.
TickSteps == { 1, 999 }

CacheKeys == { << "k", "1" >>, << "k", "2" >>, << "k", "3" >> }

CacheValues == { "v1", "v2" }

\* The options the cache is constructed with (ttlSeconds 0 = never expire).
CacheOptions == [ ttlSeconds : { 0, 1 }, maxItems : { 1, 2 } ]

(***************************************************************************)
(* Requests in flight                                                      *)
(***************************************************************************)

\* The request slots of the server.
Procs == { 1, 2 }

NoBody == [ none |-> TRUE ]

NoDoc == [ none |-> TRUE ]

\* The message of an error: a text, with the content id the text names.
Message(text, id) == [ text |-> text, id |-> id ]

NoMessage == Message("", << >>)

\* A slot: the request (op and its parameters as received), where its handler stands
\* (pc), what the handler holds across its awaits (cursor, key, doc, rows,
\* code, failure, n, ver), the response (status, errorCode, message, body), and
\* history of the run: the kind of error thrown (thrown), and
\* kept for the properties (id, need, fresh, mustSee, mustMiss, absent, rivals,
\* dropped, interfered, hit, queries, tr; readAt: when the find behind the
\* page ran, storedAt: when the page was put in the cache, at: when the page
\* was returned, expiry and expiryAfter: the expiry time of the cached page
\* before and after the hit that returned it).
IdleReq ==
  [ op |-> "none", pc |-> "idle", id |-> 0,
    userId |-> << >>, contentId |-> << >>, contentType |-> "",
    rawLimit |-> [ given |-> FALSE, s |-> << >> ], limit |-> 0,
    rawCursor |-> [ given |-> FALSE, s |-> << >> ], cursor |-> Undefined,
    key |-> << >>,
    doc |-> NoDoc, rows |-> << >>, code |-> 0, n |-> 0, ver |-> 0,
    failure |-> NoMessage,
    status |-> 0, errorCode |-> "", message |-> NoMessage, body |-> NoBody, thrown |-> "none",
    need |-> 0, fresh |-> TRUE, mustSee |-> {}, mustMiss |-> {}, absent |-> FALSE,
    rivals |-> {}, interfered |-> FALSE, dropped |-> {}, hit |-> FALSE, queries |-> 0,
    tr |-> FALSE, readAt |-> 0, storedAt |-> 0, at |-> 0,
    expiry |-> Infinity, expiryAfter |-> Infinity ]

NoTraversal ==
  [ phase |-> "idle", userId |-> << >>, limit |-> << >>, acc |-> << >>,
    pages |-> 0, dirty |-> FALSE, expected |-> << >>, stable |-> {} ]

NoCodec == [ phase |-> "idle", kind |-> "", token |-> << >>, payload |-> Undefined,
             result |-> Return(Undefined) ]

\* The service with no request in flight, over the collection coll.
ServiceIdle(coll) ==
  /\ my_list = coll
  /\ reqs = [ p \in Procs |-> IdleReq ]
  /\ started = 0
  /\ hist = << coll >>
  /\ committed = [ u \in Users |-> 1 ]
  /\ conflicts = {}
  /\ removed = {}
  /\ trav = NoTraversal
  /\ pageTimes = EmptyStore

(***************************************************************************)
(* config/database.ts: the cached connection promise                       *)
(***************************************************************************)

\* Calls of mongoose.connect per behaviour.
MaxAttempts == 3

\* Calls of disconnectFromDatabase that may await close() at one time.
MaxClosing == 2

NoDbCall == [ op |-> "none", started |-> FALSE, thrown |-> FALSE, returned |-> 0,
              current |-> {} ]

\* The module as loaded: connectionPromise = null.
NoDatabase(uri) ==
  [ connectionPromise |-> 0, attempts |-> << >>, closing |-> << >>, uri |-> uri,
    released |-> {}, last |-> NoDbCall ]

\* The process before start() is called: the server is made and does not
\* listen.
NoProcess == [ pc |-> "loaded", code |-> 0, awaiting |-> 0, listened |-> FALSE,
               signals |-> 0 ]

\* process.exit(code).
Exit(pr, code) == [ pr EXCEPT !.pc = "exited", !.code = code ]

\* A start() that listens whatever became of the connection.
startListenAnyway(pr, status) ==
  [ pr EXCEPT !.pc = "listening", !.listened = TRUE ]

\* start() after its await of connectToDatabase(): server.listen when the
\* promise has resolved, process.exit(1) from the catch when it has
\* rejected.
startAfterConnect(pr, status) ==
  IF status = "established"
  THEN [ pr EXCEPT !.pc = "listening", !.listened = TRUE ]
  ELSE Exit(pr, 1)

\* start() up to its await, on the database module d as its call of
\* connectToDatabase() has left it.
startConnect(pr, d) ==
  IF d.last.thrown THEN Exit(pr, 1)
  ELSE IF d.attempts[d.last.returned] = "pending"
  THEN [ pr EXCEPT !.pc = "connecting", !.awaiting = d.last.returned ]
  ELSE startAfterConnect([ pr EXCEPT !.awaiting = d.last.returned ],
                         d.attempts[d.last.returned])

\* The attempts that are pending or have given a connection, and that no
\* completed disconnect has closed or abandoned.
CurrentAttempts(d) ==
  { a \in 1..Len(d.attempts) :
      d.attempts[a] \in { "pending", "established" } /\ a \notin d.released }

\* connectToDatabase(): the cached promise is returned, or the missing
\* MONGODB_URI is thrown, or mongoose.connect is called and its promise
\* cached.
connectToDatabase(d) ==
  IF d.connectionPromise # 0
  THEN [ d EXCEPT !.last = [ op |-> "connect", started |-> FALSE, thrown |-> FALSE,
                             returned |-> d.connectionPromise,
                             current |-> CurrentAttempts(d) ] ]
  ELSE IF ~d.uri
  THEN [ d EXCEPT !.last = [ op |-> "connect", started |-> FALSE, thrown |-> TRUE,
                             returned |-> 0, current |-> CurrentAttempts(d) ] ]
  ELSE [ d EXCEPT !.attempts = Append(@, "pending"),
                  !.connectionPromise = Len(d.attempts) + 1,
                  !.last = [ op |-> "connect", started |-> TRUE, thrown |-> FALSE,
                             returned |-> Len(d.attempts) + 1,
                             current |-> CurrentAttempts(d) ] ]

\* The promise of attempt a resolves: the .then handler logs.
attemptResolved(d, a) ==
  [ d EXCEPT !.attempts[a] = "established", !.last = NoDbCall ]

\* The promise of attempt a rejects: the .catch handler resets
\* connectionPromise.
attemptRejected(d, a) ==
  [ d EXCEPT !.attempts[a] = "failed", !.connectionPromise = 0, !.last = NoDbCall ]

\* disconnectFromDatabase() up to its await: nothing without a cached
\* promise; else mongoose.connection.close() is called, which closes the
\* connection if there is one.
disconnectFromDatabase(d) ==
  IF d.connectionPromise = 0
  THEN [ d EXCEPT !.last = [ NoDbCall EXCEPT !.op = "disconnect" ] ]
  ELSE [ d EXCEPT !.attempts = [ a \in DOMAIN @ |->
                                   IF @[a] = "established" THEN "closed" ELSE @[a] ],
                  !.closing = Append(@, Len(d.attempts)),
                  !.last = [ NoDbCall EXCEPT !.op = "disconnect",
                                             !.returned = d.connectionPromise ] ]

\* disconnectFromDatabase() after close() has returned, for the i-th of the
\* calls awaiting it: connectionPromise = null.  The attempts started before
\* that call are closed or abandoned from then on.
disconnected(d, i) ==
  [ d EXCEPT !.connectionPromise = 0,
             !.closing = SubSeq(@, 1, i - 1) \o SubSeq(@, i + 1, Len(@)),
             !.released = @ \cup 1..d.closing[i],
             !.last = [ NoDbCall EXCEPT !.op = "disconnected" ] ]

(***************************************************************************)
(* The cache on its own: a client calling get, set, delete and clear       *)
(***************************************************************************)

NoCall == [ op |-> "none", key |-> << >>, result |-> Miss, evicted |-> {} ]

NoTwin == [ on |-> FALSE, had |-> FALSE, store |-> Constructed.store,
            accessCounter |-> Constructed.accessCounter,
            result |-> Miss, evicted |-> {} ]

InitCache ==
  /\ store = EmptyStore
  /\ accessCounter = 0
  /\ options \in CacheOptions
  /\ now = 0
  /\ ticks = 0
  /\ calls = 0
  /\ lastCall = NoCall
  /\ live = EmptyStore
  /\ setRun = [ ok |-> TRUE, keys |-> << >> ]
  /\ twin = NoTwin
  /\ db = NoDatabase(TRUE)
  /\ proc = NoProcess
  /\ ServiceIdle({})
  /\ cx = NoCodec

\* Date.now() advances.
Tick(d) ==
  /\ ticks < MaxTicks
  /\ now' = now + d
  /\ ticks' = ticks + 1
  /\ lastCall' = NoCall
  /\ UNCHANGED << cacheVars, calls, live, setRun, twin, serviceVars, bootVars, cx >>

ClientGet(key) ==
  /\ calls < MaxCalls
  /\ LET r == CacheGet(store, accessCounter, options, now, key) IN
       /\ store' = r.store
       /\ accessCounter' = r.accessCounter
       /\ lastCall' = [ op |-> "get", key |-> key, result |-> r.result, evicted |-> {} ]
       /\ live' = IF r.result.hit THEN [ live EXCEPT ![key].used = calls + 1 ] ELSE live
  /\ twin' = IF twin.on
             THEN LET t == CacheGet(twin.store, twin.accessCounter, options, now, key)
                  IN  [ twin EXCEPT !.store = t.store, !.accessCounter = t.accessCounter,
                                    !.result = t.result, !.evicted = {} ]
             ELSE twin
  /\ calls' = calls + 1
  /\ setRun' = [ setRun EXCEPT !.ok = FALSE ]
  /\ UNCHANGED << options, clockVars, bootVars, serviceVars, cx >>

ClientSet(key, value) ==
  /\ calls < MaxCalls
  /\ LET r == CacheSet(store, accessCounter, options, now, key, value)
         evicted == ((DOMAIN store) \cup { key }) \ DOMAIN r.store
     IN
       /\ store' = r.store
       /\ accessCounter' = r.accessCounter
       /\ live' = [ k \in ((DOMAIN live) \cup { key }) \ evicted |->
                      IF k = key
                      THEN [ value |-> value, at |-> now,
                             setAt |-> calls + 1, used |-> calls + 1 ]
                      ELSE live[k] ]
       /\ lastCall' = [ op |-> "set", key |-> key, result |-> Miss,
                        evicted |-> { [ key |-> k,
                                        at |-> IF k = key THEN now ELSE live[k].at,
                                        setAt |-> IF k = key THEN calls + 1 ELSE live[k].setAt,
                                        used |-> IF k = key THEN calls + 1 ELSE live[k].used ] :
                                      k \in evicted } ]
  /\ twin' = IF twin.on
             THEN LET t == CacheSet(twin.store, twin.accessCounter, options, now, key, value)
                  IN  [ twin EXCEPT !.store = t.store, !.accessCounter = t.accessCounter,
                                    !.result = Miss,
                                    !.evicted = ((DOMAIN twin.store) \cup { key }) \ DOMAIN t.store ]
             ELSE twin
  /\ calls' = calls + 1
  /\ setRun' = IF setRun.ok /\ \A i \in 1..Len(setRun.keys) : setRun.keys[i] # key
               THEN [ setRun EXCEPT !.keys = Append(@, key) ]
               ELSE [ setRun EXCEPT !.ok = FALSE ]
  /\ UNCHANGED << options, clockVars, bootVars, serviceVars, cx >>

ClientDelete(key) ==
  /\ calls < MaxCalls
  /\ store' = CacheDelete(store, key)
  /\ live' = StoreDelete(live, key)
  /\ lastCall' = [ op |-> "delete", key |-> key, result |-> Miss, evicted |-> {} ]
  /\ twin' = IF twin.on
             THEN [ twin EXCEPT !.store = CacheDelete(@, key), !.result = Miss, !.evicted = {} ]
             ELSE twin
  /\ calls' = calls + 1
  /\ setRun' = [ setRun EXCEPT !.ok = FALSE ]
  /\ UNCHANGED << accessCounter, options, clockVars, bootVars, serviceVars, cx >>

ClientClear ==
  /\ calls < MaxCalls
  /\ store' = CacheClear.store
  /\ accessCounter' = CacheClear.accessCounter
  /\ live' = EmptyStore
  /\ lastCall' = [ op |-> "clear", key |-> << >>, result |-> Miss, evicted |-> {} ]
  /\ twin' = [ on |-> TRUE, had |-> accessCounter > 0, store |-> Constructed.store,
               accessCounter |-> Constructed.accessCounter,
               result |-> Miss, evicted |-> {} ]
  /\ calls' = calls + 1
  /\ setRun' = [ setRun EXCEPT !.ok = FALSE ]
  /\ UNCHANGED << options, clockVars, bootVars, serviceVars, cx >>

NextCache ==
  \/ \E d \in TickSteps : Tick(d)
  \/ \E k \in CacheKeys : ClientGet(k)
  \/ \E k \in CacheKeys, v \in CacheValues : ClientSet(k, v)
  \/ \E k \in CacheKeys : ClientDelete(k)
  \/ ClientClear

SpecCache == InitCache /\ [][NextCache]_vars

(***************************************************************************)
(* Properties of the cache engine                                          *)
(***************************************************************************)

\* C9 (Cache TTL): with ttlSeconds = T > 0, a get of a key whose last set, at
\* time t0, has not been overwritten, deleted, cleared or evicted returns the
\* value set when now <= t0 + 1000*T and returns absent when now > t0 + 1000*T.
CacheTtl ==
  (options.ttlSeconds > 0 /\ lastCall.op = "get" /\ lastCall.key \in DOMAIN live) =>
    LET e == live[lastCall.key] IN
      IF now <= e.at + 1000 * options.ttlSeconds
      THEN lastCall.result = Hit(e.value)
      ELSE lastCall.result = Miss

\* A get at exactly t0 + 1000*T that returned the value.
CacheTtlWitness ==
  /\ options.ttlSeconds > 0
  /\ lastCall.op = "get"
  /\ lastCall.key \in DOMAIN live
  /\ now = live[lastCall.key].at + 1000 * options.ttlSeconds
  /\ lastCall.result.hit

\* A get at t0 + 1000*T + 1 that returned absent.
CacheTtlExpiredReached ==
  /\ options.ttlSeconds > 0
  /\ lastCall.op = "get"
  /\ lastCall.key \in DOMAIN live
  /\ now = live[lastCall.key].at + 1000 * options.ttlSeconds + 1
  /\ ~lastCall.result.hit

\* C10 (LRU bound): the store never holds more than maxItems entries, and
\* after maxItems + 1 distinct keys have been set with no other call, it holds
\* exactly the last maxItems of them: the first one set is absent.
LruBound ==
  /\ Cardinality(DOMAIN store) <= options.maxItems
  /\ (setRun.ok /\ Len(setRun.keys) = options.maxItems + 1) =>
       /\ DOMAIN store = { setRun.keys[i] : i \in 2..Len(setRun.keys) }
       /\ Cardinality(DOMAIN store) = options.maxItems
       /\ setRun.keys[1] \notin DOMAIN store

\* maxItems + 1 distinct keys have been set and nothing else was called.
LruBoundWitness == setRun.ok /\ Len(setRun.keys) = options.maxItems + 1

\* C11 (LRU victim): when a set makes the store exceed maxItems, exactly one
\* entry is removed, and it is the entry whose most recent access (its last
\* set, or its last get that returned a value) is the oldest among all the
\* stored entries, the one just set included.
LruVictim ==
  [][ (/\ lastCall'.op = "set"
       /\ Cardinality((DOMAIN store) \cup { lastCall'.key }) > options.maxItems) =>
        LET key == lastCall'.key
            all == (DOMAIN store) \cup { key }
            gone == all \ DOMAIN store'
        IN  /\ Cardinality(gone) = 1
            /\ DOMAIN store' \subseteq all
            /\ \A g \in gone : \A k \in all \ { key } :
                  g # key /\ live[g].used <= live[k].used ]_vars

\* A set has evicted a key while an entry that was set before that key, and
\* read by a successful get after it was set, stays in the store.
LruVictimWitness ==
  /\ lastCall.op = "set"
  /\ \E e \in lastCall.evicted :
       \E k \in (DOMAIN store) \ { lastCall.key } :
         live[k].setAt < e.setAt /\ live[k].used > e.used
\* C28. clear() empties the store and resets the access counter to zero,
\* and from then on the cache answers as a cache constructed with the same
\* options at the moment of the clear and given the same calls: every call
\* returns the same result and evicts the same keys on both.
ClearIsConstruction ==
  /\ lastCall.op = "clear" =>
        store = EmptyStore /\ accessCounter = 0
  /\ (twin.on /\ lastCall.op # "none") =>
        /\ lastCall.result = twin.result
        /\ { e.key : e \in lastCall.evicted } = twin.evicted

\* A cache that had been written to was cleared, and a later set has
\* evicted an entry.
ClearIsConstructionWitness ==
  /\ twin.on /\ twin.had
  /\ lastCall.op = "set" /\ lastCall.evicted # {}

\* C34. For maxItems >= 1 a set never evicts the key it has just written:
\* the entry is stored with the highest counter, the keys the set evicted
\* do not include it, and a get of the key right after the set returns the
\* value set.
SetKeepsOwnKey ==
  (options.maxItems >= 1 /\ lastCall.op = "set") =>
    LET key == lastCall.key IN
    /\ key \in DOMAIN store
    /\ key \notin { e.key : e \in lastCall.evicted }
    /\ \A k \in DOMAIN store : store[k].lastAccessCounter <= store[key].lastAccessCounter
    /\ key \in DOMAIN live
    /\ CacheGet(store, accessCounter, options, now, key).result = Hit(live[key].value)

\* A set of a new key into a full cache has evicted another key.
SetKeepsOwnKeyWitness ==
  /\ lastCall.op = "set"
  /\ lastCall.evicted # {}
  /\ Cardinality(DOMAIN store) = options.maxItems
  /\ live[lastCall.key].setAt = live[lastCall.key].used

\* The counters of the stored entries are pairwise distinct and lie between
\* 1 and the access counter of the cache.
CountersDistinct ==
  /\ \A k \in DOMAIN store :
        store[k].lastAccessCounter >= 1 /\ store[k].lastAccessCounter <= accessCounter
  /\ \A j, k \in DOMAIN store :
        store[j].lastAccessCounter = store[k].lastAccessCounter => j = k

\* C35. In every reachable state the counters of the stored entries are
\* pairwise distinct, each at least 1 and at most the access counter of the
\* cache, so that exactly one entry has the lowest counter; and the access
\* counter never decreases, except to zero in a clear that empties the
\* store.
CounterInvariant ==
  /\ []( /\ CountersDistinct
         /\ DOMAIN store # {} =>
               Cardinality({ k \in DOMAIN store :
                               \A j \in DOMAIN store :
                                 store[k].lastAccessCounter <= store[j].lastAccessCounter }) = 1 )
  /\ [][ accessCounter' < accessCounter =>
           (lastCall'.op = "clear" /\ accessCounter' = 0 /\ store' = EmptyStore) ]_vars

\* Two entries are stored, one of them read since it was set, and the
\* counter has passed the number of entries.
CounterInvariantWitness ==
  /\ Cardinality(DOMAIN store) = 2
  /\ lastCall.op = "get" /\ lastCall.result.hit
  /\ accessCounter >= 3
  /\ twin.on

\* The entries of every key but key are the same in both stores.
SameButFor(st1, st2, key) ==
  /\ (DOMAIN st1) \ { key } = (DOMAIN st2) \ { key }
  /\ \A k \in (DOMAIN st1) \ { key } : st1[k] = st2[k]

\* C27. A get of a key whose entry has expired removes that entry and
\* returns absent; a get of an expired or missing key changes no other
\* entry and leaves the access counter as it is; a get that hits returns
\* the value and changes only the counter of the entry it read, which
\* becomes the advanced access counter: value and expiry time stay as set.
GetFrame ==
  [][ (lastCall'.op = "get" /\ calls' = calls + 1) =>
        LET key == lastCall'.key IN
        /\ SameButFor(store, store', key)
        /\ options' = options
        /\ IF key \notin DOMAIN store
           THEN /\ lastCall'.result = Miss
                /\ store' = store
                /\ accessCounter' = accessCounter
           ELSE IF ~store[key].expiresAt.inf /\ now > store[key].expiresAt.ms
           THEN /\ lastCall'.result = Miss
                /\ key \notin DOMAIN store'
                /\ accessCounter' = accessCounter
           ELSE /\ lastCall'.result = Hit(store[key].value)
                /\ key \in DOMAIN store'
                /\ store'[key].value = store[key].value
                /\ store'[key].expiresAt = store[key].expiresAt
                /\ accessCounter' = accessCounter + 1
                /\ store'[key].lastAccessCounter = accessCounter' ]_vars

\* A get of a key set more than ttlSeconds before returned absent and the
\* entry is gone, while another entry is still stored.
GetFrameWitness ==
  /\ lastCall.op = "get" /\ ~lastCall.result.hit
  /\ options.ttlSeconds > 0
  /\ lastCall.key \in (DOMAIN live) \ DOMAIN store
  /\ now = live[lastCall.key].at + 1000 * options.ttlSeconds + 1
  /\ DOMAIN store # {}

\* C26. With ttlSeconds = 0 no entry expires: a get of a key returns the last
\* value set for it, however far the clock has advanced, as long as the key
\* has not been deleted, cleared or evicted since; the stored entries are
\* exactly those keys, each with its last value and no expiry time.
NeverExpires ==
  options.ttlSeconds = 0 =>
    /\ (lastCall.op = "get" /\ lastCall.key \in DOMAIN live) =>
          lastCall.result = Hit(live[lastCall.key].value)
    /\ DOMAIN store = DOMAIN live
    /\ \A k \in DOMAIN store :
          store[k].value = live[k].value /\ store[k].expiresAt = Infinity

\* With ttlSeconds = 0, a get two seconds or more after the set of the key
\* that returned the value.
NeverExpiresWitness ==
  /\ options.ttlSeconds = 0
  /\ lastCall.op = "get"
  /\ lastCall.key \in DOMAIN live
  /\ now >= live[lastCall.key].at + 1998
  /\ lastCall.result = Hit(live[lastCall.key].value)

\* C25. Expired entries do not count for the capacity: a set evicts no
\* unexpired entry while the unexpired entries, the one just set included,
\* are at most maxItems, whatever expired entries are still stored.
NoLiveEviction ==
  [][ lastCall'.op = "set" =>
        LET key == lastCall'.key
            all == (DOMAIN store) \cup { key }
            unexpired == { k \in all : k = key \/ ~IsExpired(options, now, store[k]) }
            gone == all \ DOMAIN store'
        IN  Cardinality(unexpired) <= options.maxItems => gone \cap unexpired = {} ]_vars

\* A set has evicted an entry that had not expired, while an entry that has
\* expired is still stored and the unexpired ones were no more than
\* maxItems.
LiveEntryEvicted ==
  /\ lastCall.op = "set"
  /\ options.ttlSeconds > 0
  /\ \E e \in lastCall.evicted : now <= e.at + 1000 * options.ttlSeconds
  /\ \E k \in DOMAIN store : IsExpired(options, now, store[k])
  /\ Cardinality({ k \in DOMAIN store : ~IsExpired(options, now, store[k]) })
        < options.maxItems


(***************************************************************************)
(* The service: handlers of add, remove and list, split at their awaits    *)
(***************************************************************************)

\* Requests the server accepts in one run.
MaxRequests == 4

DefaultCacheTtlSeconds == 30

DefaultCacheMaxItems == 10000

\* listCache as constructed from the environment defaults.
ListCacheOptions == [ ttlSeconds |-> DefaultCacheTtlSeconds, maxItems |-> DefaultCacheMaxItems ]

Absent == [ given |-> FALSE, s |-> << >> ]

Given(s) == [ given |-> TRUE, s |-> s ]

\* The document of a catalogued content in a user's list.
Item(userId, contentId, contentType, addedAt) ==
  LET meta == resolveContentMetadata(contentId, contentType).v
  IN  [ userId |-> userId, contentId |-> contentId, contentType |-> contentType,
        title |-> meta.title, genres |-> meta.genres, addedAt |-> addedAt ]

Free(p) == reqs[p].pc \in { "idle", "done" }

InFlight(p) == ~Free(p)

\* Slot 1 carries the traversal while one runs.
Available(p) == Free(p) /\ ~(p = 1 /\ trav.phase = "run")

SamePair(r, userId, contentId) == r.userId = userId /\ r.contentId = contentId

\* res.status(status).json(...), from the handler or from errorHandler.
Respond(r, status, errorCode, body) ==
  [ r EXCEPT !.pc = "done", !.status = status, !.errorCode = errorCode, !.body = body ]

\* new HttpError(message, statusCode, errorCode).
HttpError(message, statusCode, errorCode) ==
  [ http |-> TRUE, statusCode |-> statusCode, errorCode |-> errorCode, message |-> message ]

\* An error of another class, as a library throws it.
OtherError(message) ==
  [ http |-> FALSE, statusCode |-> 0, errorCode |-> "", message |-> message ]

\* The messages the service and the controller give their HttpErrors.
HttpMessage(errorCode, contentId) ==
  CASE errorCode = "invalid_cursor" -> Message("Invalid cursor provided", << >>)
    [] errorCode = "limit_too_large" -> Message("limit exceeds maximum of 100", << >>)
    [] errorCode = "movie_not_found" -> Message("Movie ${contentId} not found", contentId)
    [] errorCode = "show_not_found" -> Message("TV show ${contentId} not found", contentId)
    [] errorCode = "already_in_list" ->
         Message("Content ${contentId} already exists in the user's list", contentId)
    [] errorCode = "not_in_list" ->
         Message("Content ${contentId} is not in the user's list", contentId)

\* The error listQuerySchema.parse throws when the refinement of the limit
\* fails: a ZodError, whose message lists the issue.
ZodError == OtherError(Message("limit is invalid", << >>))

\* The error find rejects with when a bound of the cursor cannot be cast.
CastError == OtherError(Message("Cast failed for value at path of model MyListItem", << >>))

\* The fallback message of errorHandler.
GenericMessage == Message("An unexpected error occurred", << >>)

\* errorHandler(err, req, res): the status and code of an HttpError, 500
\* internal_error for any other error, and in both cases the message of the
\* error (every error here carries one, so the ?? fallback is not taken).
errorHandler(r, err) ==
  [ r EXCEPT !.pc = "done",
             !.status = IF err.http THEN err.statusCode ELSE 500,
             !.errorCode = IF err.http THEN err.errorCode ELSE "internal_error",
             !.message = err.message,
             !.body = NoBody,
             !.thrown = IF err.http THEN "HttpError" ELSE "other" ]

\* The page is the answer of the query to a state of the collection not
\* older than the last mutation of the user that had returned when the
\* request started.
Fresh(r, page, h) ==
  \E k \in r.need..Len(h) :
    LET d == DirectList(h[k], r.userId, r.limit, r.cursor) IN d.ok /\ d.v = page

Max(a, b) == IF a >= b THEN a ELSE b

\* An invalidation that leaves the cache as it is.
invalidateNothing(userId, st, counter) == [ store |-> st, accessCounter |-> counter ]

\* The cache key belongs to a page of the user.
KeyOfUser(key, userId) ==
  LET prefix == cacheKey(userId, 1, Undefined)
      n == 11 + Len(userId)
  IN  Len(key) >= n /\ SubSeq(key, 1, n) = SubSeq(prefix, 1, n)

\* An invalidation that drops the pages of the user and keeps the others.
invalidateUserOnly(userId, st, counter) ==
  [ store |-> [ k \in { j \in DOMAIN st : ~KeyOfUser(j, userId) } |-> st[k] ],
    accessCounter |-> counter ]

\* invalidateCacheForUser(userId): the whole cache is cleared, whoever the
\* user is.
invalidateCacheForUser(userId, st, counter) == CacheClear

\* An invalidation that runs whether the write succeeded or not.
invalidateAlways(succeeded, userId, st, counter) == invalidateCacheForUser(userId, st, counter)

\* The invalidation as addToMyList and removeFromMyList reach it: after the
\* write, and only when the write has not thrown (add) or has deleted a row
\* (remove).
invalidateAfterWrite(succeeded, userId, st, counter) ==
  IF succeeded THEN invalidateCacheForUser(userId, st, counter)
  ELSE [ store |-> st, accessCounter |-> counter ]

\* The times of the pages the cache st holds.
PageTimes(st) == [ k \in DOMAIN st |-> pageTimes[k] ]

\* A page as the answer of the request.
Answer(r, page) ==
  [ Respond(r, 200, "", page) EXCEPT !.fresh = Fresh(r, page, hist), !.at = now,
                                    !.storedAt = now ]

\* listMyList on what listCache.get returned: the cached page is the answer,
\* or the query goes to the store.
listMyListCached(p, r, cachedValue) ==
  /\ store' = cachedValue.store
  /\ accessCounter' = cachedValue.accessCounter
  /\ reqs' = [ reqs EXCEPT ![p] = IF cachedValue.result.hit
                                   THEN [ Answer(r, cachedValue.result.value)
                                            EXCEPT !.hit = TRUE,
                                                   !.readAt = pageTimes[r.key].read,
                                                   !.storedAt = pageTimes[r.key].stored,
                                                   !.expiry = store[r.key].expiresAt,
                                                   !.expiryAfter =
                                                     cachedValue.store[r.key].expiresAt ]
                                   ELSE [ r EXCEPT !.pc = "find" ] ]

\* listMyList up to its await: the cache is consulted under the key of the
\* request.
listMyList(p, r) ==
  listMyListCached(p, r, CacheGet(store, accessCounter, options, now, r.key))

\* The handler ends before listMyList.
Refuse(p, r) ==
  /\ reqs' = [ reqs EXCEPT ![p] = r ]
  /\ UNCHANGED << store, accessCounter >>

\* handleListMyItems on the parsed query and the decoded cursor.
handleListMyItems(p, r, query, cursor) ==
  IF ~query.ok THEN Refuse(p, errorHandler(r, ZodError))
  ELSE IF ~cursor.ok
  THEN Refuse(p, errorHandler(r, HttpError(HttpMessage(cursor.errorCode, << >>),
                                           cursor.statusCode, cursor.errorCode)))
  ELSE IF query.limit > 100
  THEN Refuse(p, errorHandler(r, HttpError(HttpMessage("limit_too_large", << >>),
                                           400, "limit_too_large")))
  ELSE listMyList(p, [ r EXCEPT !.limit = query.limit, !.cursor = cursor.v,
                                !.key = cacheKey(r.userId, query.limit, cursor.v) ])

\* handleListMyItems up to the first await of listMyList: the query is
\* parsed, the cursor decoded, the limit checked, the cache consulted.
ListBegin(p, userId, limitParam, cursorParam, tr) ==
  handleListMyItems(
    p,
    [ IdleReq EXCEPT !.op = "list", !.id = started + 1, !.userId = userId,
                     !.rawLimit = limitParam, !.rawCursor = cursorParam,
                     !.need = committed[userId],
                     !.mustSee = { c \in ContentIds :
                                     [ userId |-> userId, contentId |-> c ] \in conflicts },
                     !.mustMiss = { c \in ContentIds :
                                      [ userId |-> userId, contentId |-> c ] \in removed },
                     !.tr = tr ],
    ParseLimit(limitParam),
    IF cursorParam.given /\ Len(cursorParam.s) > 0
    THEN decodeCursor(cursorParam.s)
    ELSE Return(Undefined))

\* GET /:userId/list.
ListStart(p, userId, limitParam, cursorParam) ==
  /\ Available(p)
  /\ started < MaxRequests
  /\ started' = started + 1
  /\ ListBegin(p, userId, limitParam, cursorParam, FALSE)
  /\ pageTimes' = PageTimes(store')
  /\ UNCHANGED << options, clockVars, bootVars, clientVars, my_list, hist, committed, conflicts, removed, trav, cx >>

\* The store runs the find of listMyList.
ListFind(p) ==
  /\ reqs[p].op = "list" /\ reqs[p].pc = "find"
  /\ LET r == reqs[p]
         f == Find(my_list, r.userId, r.cursor, r.limit + 1)
     IN  reqs' = [ reqs EXCEPT ![p] = IF f.ok THEN [ r EXCEPT !.pc = "page", !.rows = f.rows, !.readAt = now,
                                                                !.ver = Len(hist),
                                                                !.queries = @ + 1 ]
                                       ELSE [ errorHandler(r, CastError)
                                                EXCEPT !.queries = @ + 1 ] ]
  /\ UNCHANGED << pageTimes, cacheVars, clockVars, bootVars, clientVars, my_list, started, hist, committed,
                  conflicts, removed, trav, cx >>

\* A key for the result that leaves the cursor out.
resultKeyNoCursor(r) == cacheKey(r.userId, r.limit, Undefined)

\* The key listMyList stores its result under: cacheKey(userId, options),
\* computed again after the find.
resultKey(r) == cacheKey(r.userId, r.limit, r.cursor)

\* listMyList after its find: the page is built, cached and returned.
ListFinish(p) ==
  /\ reqs[p].op = "list" /\ reqs[p].pc = "page"
  /\ LET r == reqs[p]
         result == BuildPage(r.rows, r.limit)
         put == CacheSet(store, accessCounter, options, now, resultKey(r), result)
     IN  /\ store' = put.store
         /\ accessCounter' = put.accessCounter
         /\ reqs' = [ reqs EXCEPT ![p] = Answer(r, result) ]
  /\ pageTimes' = [ k \in DOMAIN store' |->
                        IF k = resultKey(reqs[p])
                        THEN [ read |-> reqs[p].readAt, stored |-> now ]
                        ELSE pageTimes[k] ]
  /\ UNCHANGED << options, clockVars, bootVars, clientVars, my_list, started, hist, committed,
                  conflicts, removed, trav, cx >>

\* POST /:userId/list up to the create of addToMyList: the catalogue is
\* consulted and the document made with the current time.
AddStart(p, userId, contentId, contentType) ==
  /\ Available(p)
  /\ started < MaxRequests
  /\ started' = started + 1
  /\ LET meta == resolveContentMetadata(contentId, contentType)
         others == { q \in Procs \ { p } : /\ InFlight(q) /\ reqs[q].op = "add"
                                           /\ SamePair(reqs[q], userId, contentId) }
         base == [ IdleReq EXCEPT !.op = "add", !.id = started + 1, !.userId = userId,
                                  !.contentId = contentId, !.contentType = contentType,
                                  !.absent = ~IsDuplicate(my_list, userId, contentId),
                                  !.rivals = { reqs[q].id : q \in others } ]
     IN  reqs' = [ q \in Procs |->
                     IF q = p
                     THEN IF ~meta.ok
                          THEN errorHandler(base, HttpError(HttpMessage(meta.errorCode, contentId),
                                                            meta.statusCode, meta.errorCode))
                          ELSE [ base EXCEPT !.pc = "create",
                                             !.doc = Item(userId, contentId, contentType, now) ]
                     ELSE IF q \in others /\ meta.ok
                     THEN [ reqs[q] EXCEPT !.rivals = @ \cup { started + 1 } ]
                     ELSE IF InFlight(q) /\ reqs[q].op = "list" /\ reqs[q].userId = userId
                     THEN [ reqs[q] EXCEPT !.mustMiss = @ \ { contentId } ]
                     ELSE reqs[q] ]
  /\ removed' = removed \ { [ userId |-> userId, contentId |-> contentId ] }
  /\ trav' = IF trav.phase = "run" THEN [ trav EXCEPT !.dirty = TRUE ] ELSE trav
  /\ UNCHANGED << pageTimes, cacheVars, clockVars, bootVars, clientVars, my_list, hist, committed, conflicts, cx >>

\* The store runs the create: the insert, its refusal by the unique index,
\* or (fail) another error of the store, thrown with its message.
AddCreate(p, fail) ==
  /\ reqs[p].op = "add" /\ reqs[p].pc = "create"
  /\ LET r == reqs[p]
         c == IF fail.failed THEN [ coll |-> my_list, code |-> 1 ] ELSE Create(my_list, r.doc)
     IN  /\ my_list' = c.coll
         /\ hist' = IF c.code = 0 THEN Append(hist, c.coll) ELSE hist
         /\ reqs' = [ reqs EXCEPT ![p] = [ r EXCEPT !.pc = "created", !.code = c.code,
                                                    !.failure = fail.message,
                                                    !.n = Cardinality(c.coll \ my_list),
                                                    !.ver = Len(hist') ] ]
  /\ UNCHANGED << pageTimes, cacheVars, clockVars, bootVars, clientVars, started, committed, conflicts, removed, trav, cx >>

\* addToMyList after its create: the cache is cleared and the item returned,
\* or the error of the store is translated.
AddFinish(p) ==
  /\ reqs[p].op = "add" /\ reqs[p].pc = "created"
  /\ LET r == reqs[p] IN
       /\ store' = invalidateAfterWrite(r.code = 0, r.userId, store, accessCounter).store
       /\ accessCounter' = invalidateAfterWrite(r.code = 0, r.userId, store, accessCounter).accessCounter
       /\ IF r.code = 0
          THEN /\ reqs' = [ reqs EXCEPT ![p] = [ Respond(r, 201, "", r.doc)
                                                  EXCEPT !.dropped = DOMAIN store ] ]
               /\ committed' = [ committed EXCEPT ![r.userId] = Max(@, r.ver) ]
               /\ UNCHANGED conflicts
          ELSE IF isDuplicateKeyError(r.code)
          THEN /\ reqs' = [ reqs EXCEPT ![p] =
                             errorHandler(r, HttpError(HttpMessage("already_in_list", r.contentId),
                                                       409, "already_in_list")) ]
               /\ conflicts' = conflicts \cup { [ userId |-> r.userId, contentId |-> r.contentId ] }
               /\ UNCHANGED committed
          ELSE /\ reqs' = [ reqs EXCEPT ![p] = errorHandler(r, OtherError(r.failure)) ]
               /\ UNCHANGED << committed, conflicts >>
  /\ pageTimes' = PageTimes(store')
  /\ UNCHANGED << options, clockVars, bootVars, clientVars, my_list, started, hist, removed, trav, cx >>

\* DELETE /:userId/list/:itemId up to the return of deleteOne.
RemoveDelete(p, userId, contentId) ==
  /\ Available(p)
  /\ started < MaxRequests
  /\ started' = started + 1
  /\ LET d == DeleteOne(my_list, userId, contentId)
     IN  /\ my_list' = d.coll
         /\ hist' = IF d.deletedCount > 0 THEN Append(hist, d.coll) ELSE hist
         /\ reqs' = [ q \in Procs |->
                        IF q = p
                        THEN [ IdleReq EXCEPT !.op = "remove", !.pc = "deleted",
                                              !.id = started + 1, !.userId = userId,
                                              !.contentId = contentId,
                                              !.absent = ~IsDuplicate(my_list, userId, contentId),
                                              !.rivals =
                                                { reqs[o].id : o \in
                                                    { o \in Procs \ { p } :
                                                        /\ InFlight(o) /\ reqs[o].op = "remove"
                                                        /\ SamePair(reqs[o], userId, contentId) } },
                                              !.n = d.deletedCount, !.ver = Len(hist') ]
                        ELSE IF InFlight(q) /\ reqs[q].op = "add"
                                /\ SamePair(reqs[q], userId, contentId)
                        THEN [ reqs[q] EXCEPT !.interfered = TRUE ]
                        ELSE IF InFlight(q) /\ reqs[q].op = "list" /\ reqs[q].userId = userId
                        THEN [ reqs[q] EXCEPT !.mustSee = @ \ { contentId } ]
                        ELSE reqs[q] ]
  /\ conflicts' = conflicts \ { [ userId |-> userId, contentId |-> contentId ] }
  /\ trav' = IF trav.phase = "run"
             THEN [ trav EXCEPT !.dirty = TRUE,
                                !.stable = { i \in @ : ~SamePair(i, userId, contentId) } ]
             ELSE trav
  /\ UNCHANGED << pageTimes, cacheVars, clockVars, bootVars, clientVars, committed, removed, cx >>

\* removeFromMyList after its deleteOne.
RemoveFinish(p) ==
  /\ reqs[p].op = "remove" /\ reqs[p].pc = "deleted"
  /\ LET r == reqs[p] IN
       /\ store' = invalidateAfterWrite(r.n # 0, r.userId, store, accessCounter).store
       /\ accessCounter' = invalidateAfterWrite(r.n # 0, r.userId, store, accessCounter).accessCounter
       /\ IF r.n = 0
          THEN /\ reqs' = [ reqs EXCEPT ![p] =
                             errorHandler(r, HttpError(HttpMessage("not_in_list", r.contentId),
                                                       404, "not_in_list")) ]
               /\ UNCHANGED << committed, removed >>
          ELSE /\ reqs' = [ reqs EXCEPT ![p] = [ Respond(r, 204, "", NoBody)
                                                  EXCEPT !.dropped = DOMAIN store ] ]
               /\ committed' = [ committed EXCEPT ![r.userId] = Max(@, r.ver) ]
               /\ removed' = removed \cup { [ userId |-> r.userId, contentId |-> r.contentId ] }
  /\ pageTimes' = PageTimes(store')
  /\ UNCHANGED << options, clockVars, bootVars, clientVars, my_list, started, hist, conflicts, trav, cx >>

\* A client begins to page through the list of a user: the first request
\* carries no cursor.
TravStart(userId, limitParam) ==
  /\ trav.phase = "idle"
  /\ Free(1)
  /\ started < MaxRequests
  /\ started' = started + 1
  /\ ListBegin(1, userId, limitParam, Absent, TRUE)
  /\ trav' = [ phase |-> "run", userId |-> userId, limit |-> limitParam, acc |-> << >>,
               pages |-> 0,
               dirty |-> \E q \in Procs : InFlight(q) /\ reqs[q].op \in { "add", "remove" },
               expected |-> SortDesc({ i \in my_list : i.userId = userId }),
               stable |-> { i \in my_list :
                              /\ i.userId = userId
                              /\ \A q \in Procs :
                                    ~(/\ InFlight(q) /\ reqs[q].op = "add"
                                      /\ SamePair(reqs[q], userId, i.contentId)) } ]
  /\ pageTimes' = PageTimes(store')
  /\ UNCHANGED << options, clockVars, bootVars, clientVars, my_list, hist, committed, conflicts, removed, cx >>

\* The client takes the page and asks for the next one with its nextCursor,
\* or ends at a page that has none.
TravNext ==
  /\ trav.phase = "run"
  /\ reqs[1].pc = "done" /\ reqs[1].tr
  /\ LET r == reqs[1] IN
       IF r.status # 200
       THEN /\ trav' = [ trav EXCEPT !.phase = "failed" ]
            /\ UNCHANGED << store, accessCounter, reqs, started >>
       ELSE IF r.body.nextCursor.t = "undefined"
       THEN /\ trav' = [ trav EXCEPT !.phase = "done", !.acc = @ \o r.body.items,
                                     !.pages = @ + 1 ]
            /\ UNCHANGED << store, accessCounter, reqs, started >>
       ELSE /\ started < MaxRequests
            /\ started' = started + 1
            /\ trav' = [ trav EXCEPT !.acc = @ \o r.body.items, !.pages = @ + 1 ]
            /\ ListBegin(1, trav.userId, trav.limit, Given(r.body.nextCursor.s), TRUE)
  /\ pageTimes' = PageTimes(store')
  /\ UNCHANGED << options, clockVars, bootVars, clientVars, my_list, hist, committed, conflicts, removed, cx >>


(***************************************************************************)
(* Runs of the service                                                     *)
(***************************************************************************)

A == << "a" >>

B == << "b" >>

C == << "c" >>

\* What the store does with a create besides what the unique index decides:
\* nothing, or an error of its own with the message it gives.
NoFailure == [ failed |-> FALSE, message |-> NoMessage ]

StoreFailures ==
  { [ failed |-> TRUE, message |-> Message("connection to mongodb:27017 timed out", << >>) ],
    [ failed |-> TRUE, message |-> Message("not primary", << >>) ] }

\* Collections the server may find at its start.
InitialLists == { {}, { Item(U1, B, "Movie", 1) } }

\* The requests of a run: user, content, and the kind it is asked as (c is
\* no movie).
AddInputs == { << U1, A, "Movie" >>, << U1, B, "TVShow" >>, << U1, C, "Movie" >> }

RemoveInputs == { << U1, A >> }

ListInputs == { << U1, Given(<< "1" >>) >>, << U2, Given(<< "1" >>) >> }

TravInputs == { << U1, Given(<< "1" >>) >> }

\* The nextCursor token that follows the item (addedAt, contentId).
TokenAfter(addedAt, contentId) ==
  Given(encodeCursor(CursorPayload(toISOString(addedAt), contentId)))

\* Lists asked with a cursor: the page of u1 after the item (1, b).
CursorListInputs == { << U1, Given(<< "1" >>), TokenAfter(1, B) >> }

\* Clock steps of a run of the service.
MaxServiceTicks == 1

\* A request takes the first slot that can take it.
FirstAvailable(p) == Available(p) /\ \A q \in Procs : q < p => ~Available(q)

\* The server after its start over the collection coll: an empty cache.
InitService(coll) ==
  /\ store = EmptyStore
  /\ accessCounter = 0
  /\ options = ListCacheOptions
  /\ now = 1
  /\ ticks = 0
  /\ calls = 0
  /\ lastCall = NoCall
  /\ live = EmptyStore
  /\ setRun = [ ok |-> TRUE, keys |-> << >> ]
  /\ twin = NoTwin
  /\ db = NoDatabase(TRUE)
  /\ proc = NoProcess
  /\ ServiceIdle(coll)
  /\ cx = NoCodec

Init == \E coll \in InitialLists : InitService(coll)

Next ==
  \/ \E p \in Procs, in \in AddInputs : FirstAvailable(p) /\ AddStart(p, in[1], in[2], in[3])
  \/ \E p \in Procs : AddCreate(p, NoFailure)
  \/ \E p \in Procs : AddFinish(p)
  \/ \E p \in Procs, in \in RemoveInputs : FirstAvailable(p) /\ RemoveDelete(p, in[1], in[2])
  \/ \E p \in Procs : RemoveFinish(p)
  \/ \E p \in Procs, in \in ListInputs : FirstAvailable(p) /\ ListStart(p, in[1], in[2], Absent)
  \/ \E p \in Procs, in \in CursorListInputs :
       FirstAvailable(p) /\ ListStart(p, in[1], in[2], in[3])
  \/ \E p \in Procs : ListFind(p)
  \/ \E p \in Procs : ListFinish(p)
  \/ \E in \in TravInputs : TravStart(in[1], in[2])
  \/ TravNext

\* Any number of requests in flight.
Spec == Init /\ [][Next]_vars


(***************************************************************************)
(* Properties of the service under concurrent requests                     *)
(***************************************************************************)

DoneList(r) == r.op = "list" /\ r.pc = "done" /\ r.status = 200

DoneAdd(r) == r.op = "add" /\ r.pc = "done"

\* C1. Pagination completeness: a traversal of a user's list with a fixed
\* limit, from no cursor through the successive nextCursor tokens to a page
\* that has none, with no mutation in flight at any time during it, has
\* returned exactly the items of the user, each once, in descending
\* (addedAt, contentId) order.
PaginationComplete ==
  (trav.phase = "done" /\ ~trav.dirty) => trav.acc = trav.expected

\* A traversal without mutation that ended on a page of the cache filled by
\* a list that ran across an earlier add.
PaginationIncompleteReached ==
  /\ trav.phase = "done" /\ ~trav.dirty
  /\ Len(trav.acc) < Len(trav.expected)

\* C2. No stale page after a mutation: every page a list returns is the
\* answer of its query to a state of the collection that has every mutation
\* of the user that had returned before the list started, whatever the
\* interleaving of the requests.
NoStalePage ==
  \A p \in Procs : DoneList(reqs[p]) => reqs[p].fresh

\* A list that started after a mutation of its user had returned and was
\* answered from the cache with the page of before the mutation.
StalePageReached ==
  \E p \in Procs : /\ DoneList(reqs[p]) /\ ~reqs[p].fresh
                   /\ reqs[p].need > 1 /\ Len(reqs[p].rows) = 0

\* The occurrences of a content in a page.
Occurrences(items, contentId) ==
  Cardinality({ i \in 1..Len(items) : items[i].contentId = contentId })

\* C4. Uniqueness: the collection holds at most one item per (userId,
\* contentId); an add of a pair that is in the list when the add starts
\* (the content is in the catalogue, no remove of the pair runs across the
\* add, the store raises no other error) fails with 409 already_in_list
\* and inserts nothing; and a list of the user that starts after such a
\* failure, with no remove of the pair since, and returns the whole list in
\* one page, holds the item exactly once.
Uniqueness ==
  /\ \A i, j \in my_list : (i.userId = j.userId /\ i.contentId = j.contentId) => i = j
  /\ \A p \in Procs :
       (/\ DoneAdd(reqs[p])
        /\ ~reqs[p].absent /\ ~reqs[p].interfered
        /\ reqs[p].status # 404 /\ reqs[p].code # 1) =>
         /\ reqs[p].status = 409
         /\ reqs[p].errorCode = "already_in_list"
         /\ reqs[p].n = 0
  /\ \A p \in Procs :
       (/\ DoneList(reqs[p])
        /\ reqs[p].cursor.t = "undefined"
        /\ reqs[p].body.nextCursor.t = "undefined") =>
         \A c \in reqs[p].mustSee : Occurrences(reqs[p].body.items, c) = 1

\* A duplicate add answered 409 with the list as it was.
DuplicateRejectedReached ==
  \E p \in Procs : /\ DoneAdd(reqs[p]) /\ reqs[p].status = 409 /\ reqs[p].n = 0
                   /\ IsDuplicate(my_list, reqs[p].userId, reqs[p].contentId)

\* Two adds of one pair that passed the catalogue and were in flight
\* together, the later started with the pair not in the list, no remove of
\* the pair ran across them, and the store failed neither.
Raced(a, b) ==
  /\ DoneAdd(a) /\ DoneAdd(b)
  /\ SamePair(a, b.userId, b.contentId)
  /\ a.id < b.id
  /\ a.id \in b.rivals /\ b.id \in a.rivals
  /\ b.absent
  /\ ~a.interfered /\ ~b.interfered
  /\ a.code \in { 0, 11000 } /\ b.code \in { 0, 11000 }

Won(r) == r.status = 201 /\ r.body = r.doc /\ r.doc \in hist[r.ver]

Lost(r) == r.status = 409 /\ r.errorCode = "already_in_list" /\ r.n = 0

DoneRemove(r) == r.op = "remove" /\ r.pc = "done"

\* C16. Every successful addToMyList or removeFromMyList, of any user,
\* leaves the list cache empty at the moment it returns: the cached pages of
\* every user, for every limit and cursor, are dropped.
MutationClearsCache ==
  [][ \A p \in Procs :
        (/\ reqs'[p].op \in { "add", "remove" }
         /\ reqs'[p].pc = "done" /\ reqs[p].pc # "done"
         /\ reqs'[p].status \in { 201, 204 }) =>
          /\ store' = EmptyStore
          /\ reqs'[p].dropped = DOMAIN store ]_vars

\* An add of one user has returned 201 and dropped the cached first pages
\* of both users; the cache is empty.
MutationClearsCacheWitness ==
  \E p \in Procs :
    /\ DoneAdd(reqs[p]) /\ reqs[p].status = 201 /\ reqs[p].userId = U1
    /\ cacheKey(U1, 1, Undefined) \in reqs[p].dropped
    /\ cacheKey(U2, 1, Undefined) \in reqs[p].dropped
    /\ store = EmptyStore

\* The entries of the catalogue of a kind for a content.
Catalogued(contentId, contentType) ==
  { m \in IF contentType = "Movie" THEN MovieModel ELSE TVShowModel : m.id = contentId }

\* C14. addToMyList(u, c, kind) looks c up in the catalogue of the kind
\* before any write.  On a miss it fails with the 404 of the kind and no
\* create is attempted.  On a hit with (u, c) not in the list (and no other
\* add of the pair in flight, no other error of the store), exactly one
\* item is created, with u, c, kind and the title and genres of the
\* catalogue, and that item is returned.
AddFromCatalogue ==
  \A p \in Procs :
    LET r == reqs[p] IN
    DoneAdd(r) =>
      IF Catalogued(r.contentId, r.contentType) = {}
      THEN /\ r.status = 404
           /\ r.errorCode = IF r.contentType = "Movie" THEN "movie_not_found"
                                                       ELSE "show_not_found"
           /\ r.doc = NoDoc /\ r.n = 0 /\ r.ver = 0
      ELSE (r.absent /\ r.rivals = {} /\ r.code # 1) =>
             /\ r.status = 201 /\ r.n = 1
             /\ r.body \notin hist[r.ver - 1]
             /\ hist[r.ver] = hist[r.ver - 1] \cup { r.body }
             /\ r.body.userId = r.userId
             /\ r.body.contentId = r.contentId
             /\ r.body.contentType = r.contentType
             /\ \E m \in Catalogued(r.contentId, r.contentType) :
                   r.body.title = m.title /\ r.body.genres = m.genres

\* b, a movie and a show in the catalogue, was added as a show and got the
\* show's title.
AddFromCatalogueWitness ==
  \E p \in Procs :
    /\ DoneAdd(reqs[p]) /\ reqs[p].status = 201
    /\ reqs[p].contentType = "TVShow" /\ reqs[p].body.title = "Show B"

\* c, a show only, was refused as a movie.
AddMissReached ==
  \E p \in Procs :
    /\ DoneAdd(reqs[p]) /\ reqs[p].status = 404 /\ reqs[p].contentId = C

\* C13. removeFromMyList(u, c) succeeds exactly when an item (u, c) is in
\* the store: it is then answered 204 and that item and no other is deleted;
\* with no such item (as in a second remove right after the first) it is
\* answered 404 not_in_list and nothing is deleted; and a list for u that
\* starts after the 204, with no add of c since, does not contain c.
RemoveExact ==
  /\ \A p \in Procs :
       LET r == reqs[p] IN
       DoneRemove(r) =>
         IF r.absent
         THEN r.status = 404 /\ r.errorCode = "not_in_list" /\ r.n = 0
         ELSE /\ r.status = 204 /\ r.n = 1
              /\ hist[r.ver] = { i \in hist[r.ver - 1] :
                                   ~(i.userId = r.userId /\ i.contentId = r.contentId) }
              /\ Cardinality(hist[r.ver]) = Cardinality(hist[r.ver - 1]) - 1
  /\ \A p \in Procs :
       DoneList(reqs[p]) =>
         \A c \in reqs[p].mustMiss : Occurrences(reqs[p].body.items, c) = 0

\* A list that started after the remove of an item was answered 204, and
\* was served a page with that item.
RemovedItemListed ==
  \E p \in Procs :
    /\ DoneList(reqs[p])
    /\ \E c \in reqs[p].mustMiss : Occurrences(reqs[p].body.items, c) = 1
    /\ ~IsDuplicate(my_list, reqs[p].userId, A)

\* C23. Every item that is in the user's list from before the first request
\* of a traversal (its add has returned, or it was there at the start of
\* the server) until after its last one (first page, then each nextCursor
\* in turn, same limit) is returned exactly once by the traversal, whatever
\* adds and removes of other items run meanwhile.
TraversalSeesStableItems ==
  trav.phase = "done" =>
    \A i \in trav.stable : Occurrences(trav.acc, i.contentId) = 1

\* A traversal that was served its last page from the cache and ended
\* without an item whose add had returned before it started and that is
\* still in the list.
StableItemSkipped ==
  /\ trav.phase = "done"
  /\ reqs[1].tr /\ reqs[1].hit
  /\ \E i \in trav.stable : i \in my_list /\ Occurrences(trav.acc, i.contentId) = 0

\* The items of a user that come strictly after the position (addedAt,
\* contentId) in the order of the list.
StrictlyAfter(coll, userId, addedAt, contentId) ==
  { i \in coll : /\ i.userId = userId
                 /\ \/ i.addedAt < addedAt
                    \/ i.addedAt = addedAt /\ StrLess(i.contentId, contentId) }

\* The first limit items after the cursor of the request r in the
\* collection coll.
FirstAfter(coll, r) ==
  Limit(SortDesc(StrictlyAfter(coll, r.userId,
                               ParseIsoString(GetProp(r.cursor, K_addedAt).s).ms,
                               GetProp(r.cursor, K_contentId).s)),
        r.limit)

\* C21. listMyList with a cursor c returns exactly the first limit items of
\* the user that come strictly after c in the order (addedAt lower, or
\* addedAt equal and contentId lower), items that share the addedAt of c
\* included, whether or not the item c was taken from is still there: the
\* page is that of some state the collection has had since the last
\* mutation of the user that returned before the request.
PageAfterCursor ==
  \A p \in Procs :
    LET r == reqs[p] IN
    (DoneList(r) /\ r.cursor # Undefined) =>
      \E k \in r.need..Len(hist) : r.body.items = FirstAfter(hist[k], r)

\* A list after (1, b) that started after the add of a had returned and
\* was served an empty page, while a, of the same addedAt as b, has been in
\* the list since before the request.
PageAfterCursorStale ==
  \E p \in Procs :
    LET r == reqs[p] IN
    /\ DoneList(r) /\ r.cursor # Undefined /\ r.hit
    /\ r.body.items = << >>
    /\ \A k \in r.need..Len(hist) : Item(U1, A, "Movie", 1) \in hist[k]
    /\ FirstAfter(my_list, r) = << Item(U1, A, "Movie", 1) >>

\* Two removes of the same pair that ran at the same time: first had its
\* deleteOne while the item was in the list, and second was received while
\* first was in flight.
RacingRemoves(first, second) ==
  /\ first.op = "remove" /\ first.pc = "done"
  /\ second.op = "remove" /\ second.pc = "done"
  /\ SamePair(second, first.userId, first.contentId)
  /\ first.id \in second.rivals
  /\ ~first.absent

\* No add has put the item back between the deleteOne of first and the
\* deleteOne of second.
NoAddBetween(first, second) ==
  \A k \in first.ver..(second.ver - second.n) :
    \A i \in hist[k] : ~SamePair(i, first.userId, first.contentId)

\* A remove that returns clears the cache when it has deleted the item and
\* leaves the cache as it is when it has not.
RemoveClearsIfDeleted ==
  \A p \in Procs :
    (reqs[p].op = "remove" /\ reqs[p].pc = "deleted" /\ reqs'[p].pc = "done") =>
      IF reqs'[p].status = 204
      THEN store' = EmptyStore /\ accessCounter' = 0
      ELSE reqs'[p].status = 404 /\ store' = store /\ accessCounter' = accessCounter

\* C31. When two removes of the same (userId, contentId) run at the same
\* time and the item is in the list, exactly one is answered 204 and the
\* other 404 not_in_list, and the cache is cleared by the one answered 204
\* only.
ConcurrentRemovesExactlyOne ==
  /\ [](\A p, q \in Procs :
          RacingRemoves(reqs[p], reqs[q]) =>
            /\ reqs[p].status = 204
            /\ reqs[q].status = 404 /\ reqs[q].errorCode = "not_in_list")
  /\ [][RemoveClearsIfDeleted]_vars

\* C31, as the code has it: when two removes of the same (userId,
\* contentId) run at the same time, the item is in the list and no add puts
\* it back between their two deleteOnes, exactly one is answered 204 and
\* the other 404 not_in_list; a remove clears the cache when it has deleted
\* the item and leaves the cache as it is when it has not.
ConcurrentRemovesResolved ==
  /\ [](\A p, q \in Procs :
          (RacingRemoves(reqs[p], reqs[q]) /\ NoAddBetween(reqs[p], reqs[q])) =>
            /\ reqs[p].status = 204
            /\ reqs[q].status = 404 /\ reqs[q].errorCode = "not_in_list")
  /\ [][RemoveClearsIfDeleted]_vars

\* Two removes of an item in the list have run at the same time, and the
\* one that deleted it has cleared a cache that held a page.
ConcurrentRemovesWitness ==
  \E p, q \in Procs :
    /\ RacingRemoves(reqs[p], reqs[q]) /\ NoAddBetween(reqs[p], reqs[q])
    /\ reqs[p].dropped # {}
    /\ reqs[q].status = 404

(***************************************************************************)
(* Runs with one request at a time                                         *)
(***************************************************************************)

HandlerLists == { { Item(U1, A, "Movie", 0), Item(U1, B, "Movie", 1), Item(U1, C, "TVShow", 1) } }

SeqInitialLists == InitialLists \cup HandlerLists

SeqRemoveInputs == RemoveInputs \cup { << U1, B >> }

SeqListInputs ==
  { << U1, Given(<< "1" >>), Absent >>,
    << U1, Given(<< "2" >>), Absent >>,
    << U2, Given(<< "1" >>), Absent >>,
    << U1, Given(<< "1" >>), TokenAfter(1, C) >>,
    << U1, Given(<< "2" >>), TokenAfter(1, B) >> }

SeqTravInputs == TravInputs \cup { << U1, Given(<< "2" >>) >> }

InitSeq == \E coll \in SeqInitialLists : InitService(coll)

\* Every request in slot 1: a request starts when the one before it has
\* its response.
NextSeq ==
  \/ \E in \in AddInputs : AddStart(1, in[1], in[2], in[3])
  \/ \E fail \in { NoFailure } \cup StoreFailures : AddCreate(1, fail)
  \/ AddFinish(1)
  \/ \E in \in SeqRemoveInputs : RemoveDelete(1, in[1], in[2])
  \/ RemoveFinish(1)
  \/ \E in \in SeqListInputs : ListStart(1, in[1], in[2], in[3])
  \/ ListFind(1)
  \/ ListFinish(1)
  \/ \E in \in SeqTravInputs : TravStart(in[1], in[2])
  \/ TravNext
  \/ ticks < MaxServiceTicks /\ Tick(1)

SpecSeq == InitSeq /\ [][NextSeq]_vars

\* C3. Sequential equivalence: with one request at a time, every page
\* listMyList returns, items and nextCursor, is what its query returns when
\* run against the collection as it is, without a cache.
SequentialEquivalence ==
  DoneList(reqs[1]) =>
    LET d == DirectList(my_list, reqs[1].userId, reqs[1].limit, reqs[1].cursor)
    IN  d.ok /\ d.v = reqs[1].body

\* The add or remove in r has failed: its response is an error, or its
\* write has been refused and the response is still to come.
Failing(r) ==
  /\ r.op \in { "add", "remove" }
  /\ \/ r.pc = "done" /\ r.status >= 400
     \/ r.op = "add" /\ r.pc = "created" /\ r.code # 0
     \/ r.op = "remove" /\ r.pc = "deleted" /\ r.n = 0

\* C15. Failure atomicity: no step of an addToMyList or removeFromMyList
\* that fails (content not found, already_in_list, not_in_list, another
\* error of the store) changes the stored items or the list cache: the
\* cache is cleared only after the write has succeeded.
FailureAtomicity ==
  [][ \A p \in Procs :
        (Failing(reqs'[p]) /\ reqs'[p].pc # reqs[p].pc) =>
          /\ my_list' = my_list
          /\ store' = store
          /\ accessCounter' = accessCounter ]_vars

\* An add failed on an error of the store other than the unique index, and
\* the pages cached before it are still cached.
FailureAtomicityWitness ==
  /\ DoneAdd(reqs[1]) /\ reqs[1].status = 500 /\ reqs[1].code = 1
  /\ DOMAIN store # {}

\* C18. A page listMyList has fetched (at the state hist[ver] of the
\* collection) carries a nextCursor exactly when an item of the user follows
\* its last item in the (addedAt desc, contentId desc) order; the page then
\* has exactly limit items and the cursor encodes the addedAt and contentId
\* of its last item.  Otherwise it has at most limit items and no
\* nextCursor.
NextCursorExact ==
  \A p \in Procs :
    LET r == reqs[p]
        items == r.body.items
        last == items[Len(items)]
    IN  (DoneList(r) /\ r.ver > 0) =>
          IF /\ Len(items) > 0
             /\ \E i \in hist[r.ver] : i.userId = r.userId /\ Before(last, i)
          THEN /\ Len(items) = r.limit
               /\ r.body.nextCursor.t = "string"
               /\ decodeCursor(r.body.nextCursor.s) =
                    Return(CursorPayload(toISOString(last.addedAt), last.contentId))
          ELSE /\ Len(items) <= r.limit
               /\ r.body.nextCursor = Undefined

\* A list of two items asked with limit 2: one page of two items and no
\* nextCursor.
NextCursorExactWitness ==
  /\ DoneList(reqs[1]) /\ reqs[1].ver > 0
  /\ reqs[1].limit = 2 /\ reqs[1].cursor = Undefined
  /\ Len(reqs[1].body.items) = 2
  /\ Cardinality({ i \in hist[reqs[1].ver] : i.userId = reqs[1].userId }) = 2
  /\ reqs[1].body.nextCursor = Undefined

\* A page of limit items with a nextCursor, fetched with another before it.
NextCursorPresentReached ==
  /\ DoneList(reqs[1]) /\ reqs[1].ver > 0
  /\ reqs[1].cursor # Undefined
  /\ Len(reqs[1].body.items) = reqs[1].limit
  /\ reqs[1].body.nextCursor # Undefined

\* The request in r2 repeats the request in r1.
SameRequest(r1, r2) ==
  /\ r1.op = "list" /\ r2.op = "list"
  /\ r1.userId = r2.userId /\ r1.rawLimit = r2.rawLimit /\ r1.rawCursor = r2.rawCursor

\* C19. A list answered from the cache has issued no query of the store; a
\* list that missed has issued exactly one and, in the step in which it
\* returns, its page is in the cache under the key it looked up; and the
\* same request made next, while that entry is in the cache and not expired,
\* is a hit that returns the same page.
CacheHitAndFill ==
  [][ /\ DoneList(reqs'[1]) => reqs'[1].queries = IF reqs'[1].hit THEN 0 ELSE 1
      /\ (reqs[1].pc = "page" /\ DoneList(reqs'[1])) =>
            /\ reqs'[1].key \in DOMAIN store'
            /\ store'[reqs'[1].key].value = reqs'[1].body
      /\ (/\ DoneList(reqs[1])
          /\ reqs'[1].id # reqs[1].id
          /\ SameRequest(reqs[1], reqs'[1])
          /\ reqs[1].key \in DOMAIN store
          /\ ~IsExpired(options, now, store[reqs[1].key])) =>
            /\ DoneList(reqs'[1])
            /\ reqs'[1].hit
            /\ reqs'[1].queries = 0
            /\ reqs'[1].body = reqs[1].body ]_vars

\* A request that missed, queried the store once and cached its page was
\* repeated and answered from the cache.
CacheHitAndFillWitness ==
  /\ DoneList(reqs[1]) /\ reqs[1].hit /\ reqs[1].queries = 0
  /\ reqs[1].cursor # Undefined
  /\ reqs[1].key \in DOMAIN store
  /\ store[reqs[1].key].value = reqs[1].body
  /\ Len(reqs[1].body.items) > 0

\* C20. Any error that is no HttpError (an error of the store during an
\* add) is answered with status 500, code internal_error and a generic
\* message, the same for every such error: the response carries no text of
\* the underlying error.
InternalErrorsGeneric ==
  \A p \in Procs :
    LET r == reqs[p] IN
    (r.pc = "done" /\ r.thrown = "other") =>
      /\ r.status = 500
      /\ r.errorCode = "internal_error"
      /\ r.message = GenericMessage

\* An add failed on an error of the store and the response carries the
\* message of that error.
InternalErrorLeaks ==
  /\ DoneAdd(reqs[1]) /\ reqs[1].code = 1
  /\ reqs[1].status = 500 /\ reqs[1].errorCode = "internal_error"
  /\ reqs[1].message = Message("not primary", << >>)

\* A page answered from the cache, filled since the last mutation, in a run
\* that had mutations of the user's list.
SequentialEquivalenceWitness ==
  /\ DoneList(reqs[1])
  /\ Len(reqs[1].rows) = 0
  /\ reqs[1].need > 1
  /\ Len(reqs[1].body.items) > 0


(***************************************************************************)
(* The List handler on the queries it may receive                          *)
(***************************************************************************)

Member(k, v) == [ k |-> k, v |-> v ]

\* The token a client makes of a JSON value.
TokenOf(v) == Given(B64Encode(Utf8Bytes(JsonStringify(v))))

Iso1 == toISOString(1)

\* Cursor parameters, each with what it is: a token the service issued, the
\* same payload with its two fields in the other order, a text that is no
\* base64 of JSON, and JSON objects that are no CursorPayload.
CursorInputs ==
  { [ kind |-> "none", param |-> Absent ],
    [ kind |-> "empty_param", param |-> Given(<< >>) ],
    [ kind |-> "issued", param |-> TokenAfter(1, C) ],
    [ kind |-> "issued", param |-> TokenAfter(1, B) ],
    [ kind |-> "reordered",
      param |-> TokenOf(JObj(<< Member(K_contentId, JStr(C)), Member(K_addedAt, JStr(Iso1)) >>)) ],
    [ kind |-> "not_json",
      param |-> Given(<< "i", "n", "v", "a", "l", "i", "d", "-", "b", "a", "s", "e", "6", "4" >>) ],
    [ kind |-> "missing_field",
      param |-> TokenOf(JObj(<< Member(K_addedAt, JStr(Iso1)) >>)) ],
    [ kind |-> "empty_field",
      param |-> TokenOf(JObj(<< Member(K_addedAt, JStr(Iso1)), Member(K_contentId, JStr(<< >>)) >>)) ],
    [ kind |-> "number_field",
      param |-> TokenOf(JObj(<< Member(K_addedAt, JNum(1)), Member(K_contentId, JStr(C)) >>)) ],
    [ kind |-> "number_field",
      param |-> TokenOf(JObj(<< Member(K_addedAt, JStr(Iso1)), Member(K_contentId, JNum(7)) >>)) ],
    [ kind |-> "object_field",
      param |-> TokenOf(JObj(<< Member(K_addedAt, JStr(Iso1)),
                                Member(K_contentId, JObj(<< Member(A, JStr(B)) >>)) >>)) ],
    [ kind |-> "unparseable_date",
      param |-> TokenOf(JObj(<< Member(K_addedAt, JStr(<< "y", "e", "s", "t", "e", "r", "d", "a", "y" >>)),
                                Member(K_contentId, JStr(C)) >>)) ] }

\* What the kinds above are: the parameters that carry a cursor, and of
\* those the ones that are a CursorPayload (two strings, addedAt a
\* timestamp).
CarriesCursor(kind) == kind \notin { "none", "empty_param" }

WellFormedKind(kind) == kind \in { "issued", "reordered" }

KindOf(param) == (CHOOSE in \in CursorInputs : in.param = param).kind

HandlerLimits == { Given(<< "1" >>), Given(<< "5", "0", "0" >>) }

InitHandler == \E coll \in HandlerLists : InitService(coll)

\* One user lists a collection that does not change.
NextHandler ==
  \/ \E in \in CursorInputs, l \in HandlerLimits : ListStart(1, U1, l, in.param)
  \/ ListFind(1)
  \/ ListFinish(1)

SpecHandler == InitHandler /\ [][NextHandler]_vars

\* The limit parameter is the text of a number above 100.
Excessive(limitParam) == limitParam.given /\ ParseLimit(limitParam).limit > 100

\* C8. Every cursor that reaches listMyList is well-formed: a token that is
\* no CursorPayload (a field that is a number or an object, an addedAt that
\* is no timestamp, or any other malformed token), sent with a limit that
\* is not excessive, is answered 400 invalid_cursor by the List handler,
\* with no cache lookup and no query of the store made for it.
CursorsWellFormed ==
  \A p \in Procs :
    LET r == reqs[p] IN
    (/\ r.op = "list"
     /\ ~Excessive(r.rawLimit)
     /\ CarriesCursor(KindOf(r.rawCursor))
     /\ ~WellFormedKind(KindOf(r.rawCursor))) =>
       /\ r.pc = "done"
       /\ r.status = 400
       /\ r.errorCode = "invalid_cursor"
       /\ r.key = << >>

\* A token with an object for contentId that was looked up in the cache,
\* sent to the store and answered 500.
MalformedCursorReached ==
  /\ reqs[1].op = "list" /\ reqs[1].pc = "done"
  /\ KindOf(reqs[1].rawCursor) = "object_field"
  /\ reqs[1].key # << >>
  /\ reqs[1].status = 500

\* A token with a number for addedAt that was answered 200 with a page.
MalformedCursorServed ==
  /\ DoneList(reqs[1])
  /\ KindOf(reqs[1].rawCursor) = "number_field"
  /\ Len(reqs[1].body.items) > 0

\* The page a cache key stands for: the user, the limit and the two fields
\* of the cursor, read back from the key.
LogicalPage(key) ==
  LET o == JsonParse(key).v
      c == GetProp(o, << "c", "u", "r", "s", "o", "r" >>)
  IN  << GetProp(o, << "u", "s", "e", "r", "I", "d" >>),
         GetProp(o, << "l", "i", "m", "i", "t" >>),
         GetProp(c, K_addedAt),
         GetProp(c, K_contentId) >>

\* C17. Two List requests of one user and limit whose cursor tokens decode
\* to the same addedAt and the same contentId use the same cache key,
\* whatever the order of the two fields in the token's JSON: no two entries
\* of the cache stand for the same logical page.
OneKeyPerPage ==
  \A k1, k2 \in DOMAIN store : LogicalPage(k1) = LogicalPage(k2) => k1 = k2

\* The page after (1, c) of u1 is cached twice: under the key of the issued
\* token and under the key of the token with the fields in the other order.
TwoKeysOnePage ==
  /\ DoneList(reqs[1])
  /\ KindOf(reqs[1].rawCursor) = "reordered"
  /\ \E k \in (DOMAIN store) \ { reqs[1].key } :
       /\ LogicalPage(k) = LogicalPage(reqs[1].key)
       /\ store[k].value = reqs[1].body

\* C12. A List request whose limit is greater than 100 (limit=500) is
\* answered 400 limit_too_large, with no cache lookup and no query of the
\* store made for it.
ExcessiveLimitRejected ==
  \A p \in Procs :
    LET r == reqs[p] IN
    (r.op = "list" /\ Excessive(r.rawLimit)) =>
      /\ r.pc = "done"
      /\ r.status = 400
      /\ r.errorCode = "limit_too_large"
      /\ r.key = << >>
      /\ r.rows = << >>

\* A List request with limit=500 answered 500 internal_error, the cache and
\* the store not consulted.
ExcessiveLimitInternalError ==
  /\ reqs[1].op = "list" /\ reqs[1].pc = "done"
  /\ reqs[1].rawLimit = Given(<< "5", "0", "0" >>)
  /\ reqs[1].status = 500 /\ reqs[1].errorCode = "internal_error"
  /\ reqs[1].key = << >>

(***************************************************************************)
(* Lists of two users with the same parameters                             *)
(***************************************************************************)

\* The lists of two users that hold the same content c at the same time.
TwoUserLists ==
  { coll \cup { Item(U2, C, "TVShow", 1), Item(U2, A, "Movie", 0) } : coll \in HandlerLists }

\* c","z":"1 : a contentId whose text, left unescaped, reads as the end of
\* one string and a further field z.
QuotedId == << "c", "\"", ",", "\"", "z", "\"", ":", "\"", "1" >>

\* Requests that differ in one of user, limit and cursor: two users, two
\* limits, no cursor, the cursor after (1, c), and two cursors whose keys
\* differ only by the escaping of the quotes: a contentId that holds
\* quotes, and the contentId c with a further field z.
IsolationInputs ==
  { << u, Given(<< "1" >>), c >> : u \in Users, c \in { Absent, TokenAfter(1, C) } }
    \cup
  { << U1, Given(<< "2" >>), c >> : c \in { Absent, TokenAfter(1, C) } }
    \cup
  { << U1, Given(<< "1" >>), TokenOf(CursorPayload(Iso1, QuotedId)) >>,
    << U1, Given(<< "1" >>),
       TokenOf(JObj(<< Member(K_addedAt, JStr(Iso1)), Member(K_contentId, JStr(C)),
                       Member(<< "z" >>, JStr(<< "1" >>)) >>)) >> }

InitIsolation == \E coll \in TwoUserLists : InitService(coll)

\* Lists of a collection that does not change.
NextIsolation ==
  \/ \E in \in IsolationInputs : ListStart(1, in[1], in[2], in[3])
  \/ ListFind(1)
  \/ ListFinish(1)

SpecIsolation == InitIsolation /\ [][NextIsolation]_vars

\* The user, the limit and the cursor read back from a cache key.
KeyTriple(key) ==
  LET o == JsonParse(key).v
  IN  << GetProp(o, << "u", "s", "e", "r", "I", "d" >>),
         GetProp(o, << "l", "i", "m", "i", "t" >>),
         GetProp(o, << "c", "u", "r", "s", "o", "r" >>) >>

OwnedBy(items, userId) == \A i \in 1..Len(items) : items[i].userId = userId

LimitInputs ==
  { [ kind |-> "none", param |-> Absent, n |-> 20 ],
    [ kind |-> "in_range", param |-> Given(<< "1" >>), n |-> 1 ],
    [ kind |-> "in_range", param |-> Given(<< "1", "0", "0" >>), n |-> 100 ],
    [ kind |-> "zero", param |-> Given(<< "0" >>), n |-> 0 ],
    [ kind |-> "zero", param |-> Given(<< >>), n |-> 0 ],
    [ kind |-> "excessive", param |-> Given(<< "1", "0", "1" >>), n |-> 101 ],
    [ kind |-> "negative", param |-> Given(<< "-", "1" >>), n |-> -1 ],
    [ kind |-> "non_integer", param |-> Given(<< "1", ".", "5" >>), n |-> 1 ] }

LimitOf(param) == CHOOSE in \in LimitInputs : in.param = param

InitLimits == \E coll \in HandlerLists : InitService(coll)

\* One user lists a collection that does not change, with and without a
\* cursor.
NextLimits ==
  \/ \E in \in LimitInputs, c \in { Absent, TokenAfter(1, C) } : ListStart(1, U1, in.param, c)
  \/ ListFind(1)
  \/ ListFinish(1)

SpecLimits == InitLimits /\ [][NextLimits]_vars

\* A List request that got to listMyList was given an integer limit from 1
\* to 100, the number its parameter stands for, and 20 without parameter.
PlannerLimitInRange ==
  \A p \in Procs :
    LET r == reqs[p] IN
    (r.op = "list" /\ r.key # << >>) =>
      /\ LimitOf(r.rawLimit).kind \in { "none", "in_range" }
      /\ r.limit = LimitOf(r.rawLimit).n
      /\ r.limit \in 1..100
      /\ ~r.rawLimit.given => r.limit = 20

\* C24. The List handler calls listMyList only with an integer limit from 1
\* to 100, 20 when the request has no limit parameter; a request with limit
\* 0, a negative, a non-integer or a limit above 100 is answered 400 and
\* makes no cache lookup and no query of the store.
LimitValidated ==
  /\ PlannerLimitInRange
  /\ \A p \in Procs :
       LET r == reqs[p] IN
       (r.op = "list" /\ LimitOf(r.rawLimit).kind \notin { "none", "in_range" }) =>
         /\ r.pc = "done"
         /\ r.status = 400
         /\ r.key = << >>
         /\ r.queries = 0

\* A List request with limit=0 answered 500 internal_error, the cache and
\* the store not consulted.
ZeroLimitInternalError ==
  /\ reqs[1].op = "list" /\ reqs[1].pc = "done"
  /\ reqs[1].rawLimit = Given(<< "0" >>)
  /\ reqs[1].status = 500 /\ reqs[1].errorCode = "internal_error"
  /\ reqs[1].key = << >> /\ reqs[1].queries = 0

\* A List request without limit parameter answered with a page of the
\* whole list, fetched with limit 20.
DefaultLimitReached ==
  /\ DoneList(reqs[1]) /\ ~reqs[1].rawLimit.given
  /\ reqs[1].limit = 20 /\ Len(reqs[1].body.items) = 3

(***************************************************************************)
(* Mutations of two users on the same contents                             *)
(***************************************************************************)

\* Adds and removes of contents that the other user holds too, of contents
\* in the list already and of contents that are not.
MutationAddInputs ==
  { << U1, A, "Movie" >>, << U1, C, "TVShow" >>, << U2, B, "Movie" >> }

MutationRemoveInputs == { << U1, C >>, << U2, A >>, << U2, B >> }

InitMutations == \E coll \in TwoUserLists : InitService(coll)

NextMutations ==
  \/ \E p \in Procs, in \in MutationAddInputs :
       FirstAvailable(p) /\ AddStart(p, in[1], in[2], in[3])
  \/ \E p \in Procs : AddCreate(p, NoFailure)
  \/ \E p \in Procs : AddFinish(p)
  \/ \E p \in Procs, in \in MutationRemoveInputs :
       FirstAvailable(p) /\ RemoveDelete(p, in[1], in[2])
  \/ \E p \in Procs : RemoveFinish(p)

SpecMutations == InitMutations /\ [][NextMutations]_vars

\* The items of the pair (userId, contentId) in coll.
OfPair(coll, userId, contentId) ==
  { i \in coll : i.userId = userId /\ i.contentId = contentId }

\* C29. Items are immutable and mutations are local: a create that succeeds
\* for add(u, c) changes the collection only by inserting one item of
\* (u, c), a deleteOne that deletes for remove(u, c) changes it only by
\* taking the item of (u, c) out, and no other step changes it: every other
\* item, of u or of another user (the other user's item of the same content
\* included), stays in the collection with the same fields.
MutationsLocal ==
  [][ LET gained == my_list' \ my_list
          lost == my_list \ my_list'
          creates == { p \in Procs : reqs[p].op = "add" /\ reqs[p].pc = "create"
                                      /\ reqs'[p].pc = "created" }
          deletes == { p \in Procs : reqs'[p].op = "remove" /\ reqs'[p].pc = "deleted"
                                      /\ reqs'[p].id = started + 1 /\ started' = started + 1 }
      IN  /\ \A p \in creates :
               IF reqs'[p].code = 0
               THEN /\ lost = {}
                    /\ Cardinality(gained) = 1
                    /\ gained = OfPair(my_list', reqs[p].userId, reqs[p].contentId)
               ELSE my_list' = my_list
          /\ \A p \in deletes :
               IF reqs'[p].n > 0
               THEN /\ gained = {}
                    /\ Cardinality(lost) = 1
                    /\ lost = OfPair(my_list, reqs'[p].userId, reqs'[p].contentId)
               ELSE my_list' = my_list
          /\ (creates = {} /\ deletes = {}) => my_list' = my_list ]_vars

\* A remove of u1 has deleted c and u2 still has its item of c, as added.
MutationsLocalWitness ==
  /\ \E p \in Procs : /\ reqs[p].op = "remove" /\ reqs[p].pc = "done" /\ reqs[p].status = 204
                       /\ SamePair(reqs[p], U1, C)
  /\ OfPair(my_list, U1, C) = {}
  /\ Item(U2, C, "TVShow", 1) \in my_list
  /\ \E q \in Procs : /\ reqs[q].op = "add" /\ reqs[q].pc = "done" /\ reqs[q].status = 201
                       /\ SamePair(reqs[q], U2, B)

(***************************************************************************)
(* Lists over the life of a cached page                                    *)
(***************************************************************************)

\* CACHE_TTL_SECONDS = 1.
ShortTtlOptions == [ ttlSeconds |-> 1, maxItems |-> DefaultCacheMaxItems ]

InitStaleness ==
  /\ store = EmptyStore
  /\ accessCounter = 0
  /\ options = ShortTtlOptions
  /\ now = 1
  /\ ticks = 0
  /\ calls = 0
  /\ lastCall = NoCall
  /\ live = EmptyStore
  /\ setRun = [ ok |-> TRUE, keys |-> << >> ]
  /\ twin = NoTwin
  /\ db = NoDatabase(TRUE)
  /\ proc = NoProcess
  /\ ServiceIdle({ Item(U1, B, "Movie", 1) })
  /\ cx = NoCodec

\* The time a find may take to return its rows, in milliseconds.
FindLatency == 1

\* Lists and adds of one user in two slots, the clock advancing between any
\* two steps: by FindLatency at most while a request is in flight.
NextStaleness ==
  \/ \E p \in Procs, in \in TravInputs : FirstAvailable(p) /\ ListStart(p, in[1], in[2], Absent)
  \/ \E p \in Procs : ListFind(p)
  \/ \E p \in Procs : ListFinish(p)
  \/ \E p \in Procs : FirstAvailable(p) /\ AddStart(p, U1, A, "Movie")
  \/ \E p \in Procs : AddCreate(p, NoFailure)
  \/ \E p \in Procs : AddFinish(p)
  \/ \E d \in TickSteps : ((\E p \in Procs : InFlight(p)) => d <= FindLatency) /\ Tick(d)

SpecStaleness == InitStaleness /\ [][NextStaleness]_vars

\* A cached page is not served after its expiry time and the hit leaves
\* that time as it was.
ServedBeforeExpiry(r) ==
  r.hit => ~GreaterThan(r.at, r.expiry) /\ r.expiryAfter = r.expiry

\* C30. Bounded staleness: with ttlSeconds = T > 0, every page listMyList
\* returns was read from the store at most 1000*T milliseconds before it is
\* returned; a cached page is never served after its expiry time and a hit
\* does not extend that time.
BoundedStaleness ==
  options.ttlSeconds > 0 =>
    \A p \in Procs :
      DoneList(reqs[p]) =>
        /\ reqs[p].at - reqs[p].readAt <= 1000 * options.ttlSeconds
        /\ ServedBeforeExpiry(reqs[p])

\* C30, as the code has it: with ttlSeconds = T > 0, every page listMyList
\* returns was put in the cache at most 1000*T milliseconds before it is
\* returned, and read from the store before that; a cached page is never
\* served after its expiry time and a hit does not extend that time.
BoundedCacheAge ==
  options.ttlSeconds > 0 =>
    \A p \in Procs :
      DoneList(reqs[p]) =>
        /\ reqs[p].readAt <= reqs[p].storedAt
        /\ reqs[p].storedAt <= reqs[p].at
        /\ reqs[p].at - reqs[p].storedAt <= 1000 * options.ttlSeconds
        /\ ServedBeforeExpiry(reqs[p])

\* A page served from the cache at its expiry time, 1000*T ms after it was
\* put there and longer after it was read.
BoundedCacheAgeWitness ==
  \E p \in Procs :
    /\ DoneList(reqs[p]) /\ reqs[p].hit
    /\ reqs[p].at = reqs[p].storedAt + 1000 * options.ttlSeconds
    /\ reqs[p].readAt < reqs[p].storedAt

(***************************************************************************)
(* Callers of connectToDatabase and disconnectFromDatabase                 *)
(***************************************************************************)

\* The module loaded in a process that has MONGODB_URI or has not, with
\* nothing else going on.
InitDatabase ==
  /\ store = EmptyStore
  /\ accessCounter = 0
  /\ options = ListCacheOptions
  /\ now = 1
  /\ ticks = 0
  /\ calls = 0
  /\ lastCall = NoCall
  /\ live = EmptyStore
  /\ setRun = [ ok |-> TRUE, keys |-> << >> ]
  /\ twin = NoTwin
  /\ \E uri \in BOOLEAN : db = NoDatabase(uri)
  /\ proc = NoProcess
  /\ ServiceIdle({})
  /\ cx = NoCodec

\* A caller calls connectToDatabase().
Connect ==
  /\ Len(db.attempts) < MaxAttempts
  /\ db' = connectToDatabase(db)
  /\ UNCHANGED << cacheVars, clockVars, clientVars, serviceVars, proc, cx >>

\* mongoose.connect succeeds.
AttemptResolves(a) ==
  /\ db.attempts[a] = "pending"
  /\ db' = attemptResolved(db, a)
  /\ UNCHANGED << cacheVars, clockVars, clientVars, serviceVars, proc, cx >>

\* mongoose.connect fails.
AttemptRejects(a) ==
  /\ db.attempts[a] = "pending"
  /\ db' = attemptRejected(db, a)
  /\ UNCHANGED << cacheVars, clockVars, clientVars, serviceVars, proc, cx >>

\* A caller calls disconnectFromDatabase().
Disconnect ==
  /\ Len(db.closing) < MaxClosing
  /\ db' = disconnectFromDatabase(db)
  /\ UNCHANGED << cacheVars, clockVars, clientVars, serviceVars, proc, cx >>

\* close() returns to the i-th disconnect awaiting it.
DisconnectReturns(i) ==
  /\ i \in 1..Len(db.closing)
  /\ db' = disconnected(db, i)
  /\ UNCHANGED << cacheVars, clockVars, clientVars, serviceVars, proc, cx >>

NextDatabase ==
  \/ Connect
  \/ \E a \in 1..Len(db.attempts) : AttemptResolves(a)
  \/ \E a \in 1..Len(db.attempts) : AttemptRejects(a)
  \/ Disconnect
  \/ \E i \in 1..MaxClosing : DisconnectReturns(i)

SpecDatabase == InitDatabase /\ [][NextDatabase]_vars

\* C32. connectToDatabase starts at most one attempt while an attempt is
\* pending or a connection is established: a call made while an attempt is
\* pending or has given a connection, and no disconnect called after that
\* attempt has completed, does not call mongoose.connect and returns the
\* promise of that attempt; a call starts a new attempt only when every
\* earlier attempt has failed or a disconnect called after it has completed.
ConnectOnce ==
  (db.last.op = "connect" /\ db.last.current # {}) =>
    /\ ~db.last.started
    /\ db.last.returned \in db.last.current

\* connectToDatabase has called mongoose.connect while an earlier attempt
\* was pending or had given a connection that no disconnect called since
\* has closed.
SecondAttemptStarted ==
  /\ db.last.op = "connect" /\ db.last.started
  /\ db.last.current # {}

(***************************************************************************)
(* server.ts: start, traffic and shutdown                                  *)
(***************************************************************************)

\* Termination signals per behaviour.
MaxSignals == 2

\* The process right after the module is loaded, with MONGODB_URI or
\* without, over the collection the database holds.
InitBoot ==
  /\ store = EmptyStore
  /\ accessCounter = 0
  /\ options = ListCacheOptions
  /\ now = 1
  /\ ticks = 0
  /\ calls = 0
  /\ lastCall = NoCall
  /\ live = EmptyStore
  /\ setRun = [ ok |-> TRUE, keys |-> << >> ]
  /\ twin = NoTwin
  /\ \E uri \in BOOLEAN : db = NoDatabase(uri)
  /\ proc = NoProcess
  /\ \E coll \in InitialLists : ServiceIdle(coll)
  /\ cx = NoCodec

\* start().
Start ==
  /\ proc.pc = "loaded"
  /\ db' = connectToDatabase(db)
  /\ proc' = startConnect(proc, db')
  /\ UNCHANGED << cacheVars, clockVars, clientVars, serviceVars, cx >>

\* mongoose.connect succeeds, and start() resumes if it awaits it.
BootResolves(a) ==
  /\ proc.pc # "exited"
  /\ db.attempts[a] = "pending"
  /\ db' = attemptResolved(db, a)
  /\ proc' = IF proc.pc = "connecting" /\ proc.awaiting = a
             THEN startAfterConnect(proc, "established")
             ELSE proc
  /\ UNCHANGED << cacheVars, clockVars, clientVars, serviceVars, cx >>

\* mongoose.connect fails, and start() resumes in its catch if it awaits it.
BootRejects(a) ==
  /\ proc.pc # "exited"
  /\ db.attempts[a] = "pending"
  /\ db' = attemptRejected(db, a)
  /\ proc' = IF proc.pc = "connecting" /\ proc.awaiting = a
             THEN startAfterConnect(proc, "failed")
             ELSE proc
  /\ UNCHANGED << cacheVars, clockVars, clientVars, serviceVars, cx >>

\* SIGINT or SIGTERM: shutdown calls server.close, which stops a listening
\* server and calls back with an error, which ends the process with code 1,
\* when the server is not listening.
Signal ==
  /\ proc.pc \in { "connecting", "listening", "closing", "disconnecting" }
  /\ proc.signals < MaxSignals
  /\ proc' = IF proc.pc = "listening"
             THEN [ proc EXCEPT !.pc = "closing", !.signals = @ + 1 ]
             ELSE [ Exit(proc, 1) EXCEPT !.signals = @ + 1 ]
  /\ UNCHANGED << cacheVars, clockVars, clientVars, serviceVars, db, cx >>

\* The server has closed, with no request left: the callback of
\* server.close calls disconnectFromDatabase().
ShutdownClosed ==
  /\ proc.pc = "closing"
  /\ \A p \in Procs : ~InFlight(p)
  /\ db' = disconnectFromDatabase(db)
  /\ proc' = IF db.connectionPromise = 0 THEN Exit(proc, 0)
             ELSE [ proc EXCEPT !.pc = "disconnecting" ]
  /\ UNCHANGED << cacheVars, clockVars, clientVars, serviceVars, cx >>

\* disconnectFromDatabase() returns to the callback: process.exit(0).
ShutdownDisconnected ==
  /\ proc.pc = "disconnecting"
  /\ db' = disconnected(db, 1)
  /\ proc' = Exit(proc, 0)
  /\ UNCHANGED << cacheVars, clockVars, clientVars, serviceVars, cx >>

\* The server takes requests while it listens.
Accepting == proc.pc = "listening"

\* Handlers run until the process exits.
Running == proc.pc \in { "listening", "closing" }

NextBoot ==
  \/ Start
  \/ \E a \in 1..Len(db.attempts) : BootResolves(a)
  \/ \E a \in 1..Len(db.attempts) : BootRejects(a)
  \/ Signal
  \/ ShutdownClosed
  \/ ShutdownDisconnected
  \/ Accepting /\ AddStart(1, U1, A, "Movie")
  \/ Running /\ AddCreate(1, NoFailure)
  \/ Running /\ AddFinish(1)
  \/ Accepting /\ \E in \in TravInputs : ListStart(1, in[1], in[2], Absent)
  \/ Running /\ ListFind(1)
  \/ Running /\ ListFinish(1)

SpecBoot == InitBoot /\ [][NextBoot]_vars

\* C33. Startup ordering: the server starts to listen only when the promise
\* start() awaits has resolved, that is with the connection established;
\* when the attempt fails, or MONGODB_URI is missing, the process exits with
\* code 1 and the server never listens.
StartupOrdering ==
  /\ []( /\ proc.listened =>
               /\ proc.awaiting # 0
               /\ db.attempts[proc.awaiting] \in { "established", "closed" }
         /\ (proc.awaiting # 0 /\ db.attempts[proc.awaiting] = "failed") =>
               /\ proc.pc = "exited" /\ proc.code = 1
               /\ ~proc.listened
         /\ ~db.uri => ~proc.listened /\ (proc.pc # "loaded" => proc = Exit(NoProcess, 1))
         /\ started > 0 => proc.listened )
  /\ [][ /\ (proc'.listened /\ ~proc.listened) =>
               db'.attempts[proc'.awaiting] = "established"
         /\ proc.pc = "exited" => proc' = proc /\ started' = started ]_vars

\* The server listens on an established connection and has taken a request.
StartupOrderingWitness ==
  /\ proc.pc = "listening"
  /\ db.attempts[proc.awaiting] = "established"
  /\ started > 0

\* The connection attempt has failed and the process has exited with code 1.
StartupFailed ==
  /\ proc.pc = "exited" /\ proc.code = 1 /\ ~proc.listened
  /\ proc.awaiting # 0 /\ db.attempts[proc.awaiting] = "failed"

(***************************************************************************)
(* The cursor codec on its own                                             *)
(***************************************************************************)

\* Non-empty strings: identifiers, and strings with the characters JSON
\* escapes or gives a meaning to.
ContentIdStrings ==
  { A, << "a", "b" >>, << "a", "b", "c" >>, << "m", "-", "1", "0" >>,
    << "a", "\"", "b" >>, << "\\" >>, << "{", "}" >>, << " " >>, << "n", "u", "l", "l" >> }

AddedAtStrings ==
  { toISOString(0), toISOString(1), toISOString(999), toISOString(9999),
    << "y", "e", "s", "t", "e", "r", "d", "a", "y" >>, << "0" >>, << "\"", ":", "\"" >> }

Payloads == { CursorPayload(a, c) : a \in AddedAtStrings, c \in ContentIdStrings }

\* The token a client makes of a text.
TokenOfText(text) == Given(B64Encode(Utf8Bytes(text)))

\* Tokens given to decodeCursor, each with what it is.
CodecInputs ==
  { in \in CursorInputs : CarriesCursor(in.kind) }
    \cup
  { [ kind |-> "not_json", param |-> Given(<< >>) ],
    [ kind |-> "not_json", param |-> TokenOfText(<< "h", "e", "l", "l", "o" >>) ],
    [ kind |-> "not_json",
      param |-> TokenOfText(<< "{", "\"", "a", "d", "d", "e", "d", "A", "t", "\"", ":" >>) ],
    [ kind |-> "not_json", param |-> TokenOfText(<< "{", "}", "x" >>) ],
    [ kind |-> "missing_field", param |-> TokenOf(JObj(<< >>)) ],
    [ kind |-> "missing_field", param |-> TokenOf(JObj(<< Member(K_contentId, JStr(C)) >>)) ],
    [ kind |-> "missing_field", param |-> TokenOf(JNum(5)) ],
    [ kind |-> "missing_field", param |-> TokenOf(JStr(K_addedAt)) ],
    [ kind |-> "missing_field", param |-> TokenOf(JNull) ],
    [ kind |-> "empty_field",
      param |-> TokenOf(JObj(<< Member(K_addedAt, JStr(<< >>)), Member(K_contentId, JStr(C)) >>)) ],
    [ kind |-> "null_field",
      param |-> TokenOf(JObj(<< Member(K_addedAt, JNull), Member(K_contentId, JStr(C)) >>)) ],
    [ kind |-> "extra_field",
      param |-> TokenOf(JObj(<< Member(K_contentId, JStr(C)), Member(<< "x" >>, JNum(1)),
                                Member(K_addedAt, JStr(Iso1)) >>)) ],
    [ kind |-> "base64_with_other_characters",
      param |-> Given(<< "!", " " >> \o TokenAfter(1, C).s \o << "=", "z" >>) ] }

\* The kinds decodeCursor has to refuse.
RefusedKinds == { "not_json", "missing_field", "empty_field" }

\* A payload to encode, or a token to decode.
InitCodec ==
  /\ store = EmptyStore
  /\ accessCounter = 0
  /\ options = ListCacheOptions
  /\ now = 1
  /\ ticks = 0
  /\ calls = 0
  /\ lastCall = NoCall
  /\ live = EmptyStore
  /\ setRun = [ ok |-> TRUE, keys |-> << >> ]
  /\ twin = NoTwin
  /\ db = NoDatabase(TRUE)
  /\ proc = NoProcess
  /\ ServiceIdle({})
  /\ \/ \E payload \in Payloads : cx = [ NoCodec EXCEPT !.kind = "payload", !.payload = payload ]
     \/ \E in \in CodecInputs : cx = [ NoCodec EXCEPT !.kind = in.kind, !.token = in.param.s ]

\* encodeCursor(payload).
Encode ==
  /\ cx.phase = "idle" /\ cx.kind = "payload"
  /\ cx' = [ cx EXCEPT !.phase = "encoded", !.token = encodeCursor(cx.payload) ]
  /\ UNCHANGED << cacheVars, clockVars, bootVars, clientVars, serviceVars >>

\* decodeCursor of the token encodeCursor made.
DecodeEncoded ==
  /\ cx.phase = "encoded"
  /\ cx' = [ cx EXCEPT !.phase = "decoded", !.result = decodeCursor(cx.token) ]
  /\ UNCHANGED << cacheVars, clockVars, bootVars, clientVars, serviceVars >>

\* decodeCursor of a token from outside.
DecodeRaw ==
  /\ cx.phase = "idle" /\ cx.kind # "payload"
  /\ cx' = [ cx EXCEPT !.phase = "raw", !.result = decodeCursor(cx.token) ]
  /\ UNCHANGED << cacheVars, clockVars, bootVars, clientVars, serviceVars >>

NextCodec == Encode \/ DecodeEncoded \/ DecodeRaw

SpecCodec == InitCodec /\ [][NextCodec]_vars

\* C6. Cursor round-trip: decodeCursor(encodeCursor(p)), for a payload p of
\* two non-empty strings, returns a payload with the addedAt of p, the
\* contentId of p, and no other field.
CursorRoundTrip ==
  cx.phase = "decoded" =>
    /\ cx.result.ok
    /\ cx.result.v.t = "object"
    /\ GetProp(cx.result.v, K_addedAt) = GetProp(cx.payload, K_addedAt)
    /\ GetProp(cx.result.v, K_contentId) = GetProp(cx.payload, K_contentId)
    /\ Len(cx.result.v.f) = 2
    /\ { cx.result.v.f[i].k : i \in 1..2 } = { K_addedAt, K_contentId }

\* The round trip of a payload whose contentId holds a quote.
CursorRoundTripWitness ==
  /\ cx.phase = "decoded"
  /\ cx.result.ok
  /\ GetProp(cx.payload, K_contentId) = JStr(<< "a", "\"", "b" >>)
  /\ cx.result.v = cx.payload

Blank(v) == v.t = "undefined" \/ (v.t = "string" /\ Len(v.s) = 0)

=============================================================================
